---- MODULE Spec2Model ----
(***************************************************************************)
(* Model of safe_control_gym/hyperparameters/hpo.py: the stochastic        *)
(* objective of the CVaR hyperparameter search (HPO.objective), the CVaR   *)
(* summary (HPO._compute_cvar) and the perturbation of a chosen            *)
(* configuration (HPO._perturb_hps); and of                                *)
(* safe_control_gym/controllers/mpc/gp_utils.py: GaussianProcess,          *)
(* GaussianProcesses and GaussianProcessCollection; and of                 *)
(* safe_control_gym/math_and_models/symbolic_systems.py: SymbolicModel.    *)
(*                                                                         *)
(* Specifications: Spec (one call of objective), SpecCvar (_compute_cvar), *)
(* SpecPerturb (_perturb_hps, from memory and then from a file), SpecGP    *)
(* (one GP object under train, init_with_hyperparam and predict), SpecGPC  *)
(* (one collection), SpecSave (the saving of the best trials at the end of *)
(* hyperparameter_optimization) and SpecSymbolic (the construction of a    *)
(* SymbolicModel).                                                         *)
(*                                                                         *)
(* Numbers.  Returns and efficiencies are integers; a CVaR is the mean of  *)
(* k of them and is kept as the exact fraction <<sum, k>>, k > 0.  The     *)
(* value np.inf is the fraction <<1, 0>>.  alpha and                       *)
(* approximation_threshold are fractions <<num, den>>.  Comparisons are    *)
(* made by cross-multiplication, so they are the comparisons the code      *)
(* makes on the real values.                                               *)
(***************************************************************************)
EXTENDS Integers, Sequences, FiniteSets, TLC

VARIABLES
    hpo_config,       \* self.hpo_config: the immutable search configuration
    study,            \* self.study as objective reads it: trials, best_value
    pc,               \* position of the call of objective
    increase_runs,    \* local flag of objective
    first_iteration,  \* local flag of objective
    returns,          \* local list of objective
    efficiencies,     \* local list of objective
    seeds,            \* local list of objective
    Gs_rew,           \* CVaR of returns kept from the pass that escalated
    Gs_eff,           \* CVaR of efficiencies kept from the pass that escalated
    Gss_rew,          \* CVaR of returns of the latest summarize pass
    Gss_eff,          \* CVaR of efficiencies of the latest summarize pass
    i,                \* index of the for loop over the repetitions
    agents,           \* the agents constructed so far, each with its state
    agent,            \* self.agent: index into agents, 0 when the attribute is absent
    env_func,         \* whether the attribute self.env_func exists
    total_runs,       \* self.total_runs
    result,           \* what objective returned
    raised,           \* the statement whose exception left objective
    batches,          \* number of times the body of the while loop was entered
    fault,            \* what the construction of the repetition under way logged
    repLog,           \* one record per repetition that appended an outcome
    passLog,          \* the return-CVaR of every summarize pass, in order
    hps_dict,         \* HYPERPARAMS_DICT[self.algo]: the keys in the order they are visited
    hp,               \* the chosen configuration given to _perturb_hps
    key,              \* the key _perturb_hps is at: an index into hps_dict
    id,               \* local of _perturb_hps: the index of the chosen value in interval
    dx,               \* local of _perturb_hps: the step size, a fraction
    perturbation,     \* local of _perturb_hps: the candidate value
    written,          \* the configurations _perturb_hps has dumped, in order
    hp_path,          \* the argument hp_path of _perturb_hps: '' or a file
    gp_class,         \* the class of the GP object: GaussianProcess or GaussianProcesses
    model,            \* self.model of the GP: hyperparameters, training inputs, mode
    K_plus_noise,     \* self.model.K_plus_noise and K_plus_noise_inv: the kernel cache
    casadi_predict,   \* self.casadi_predict of the GP: the closed-form export
    files,            \* the snapshot files: what torch.save wrote under each name
    train_x,          \* local of train and init_with_hyperparam: the training inputs
    n_train,          \* argument of train
    loss,             \* local of train
    last_loss,        \* local of train
    best_loss,        \* local of train
    test_loss,        \* local of train
    best_epoch,       \* local of train, -1 while it is unbound
    hist,             \* one record per iteration of the loop of the train under way
    calls,            \* number of calls of train and init_with_hyperparam so far
    prediction,       \* what the latest predict computed
    parallel,         \* self.parallel of the GaussianProcessCollection
    target_mask,      \* self.target_mask of the collection
    gp_list,          \* self.gp_list: one GaussianProcess per target dimension
    gps,              \* self.gps: the batched GaussianProcesses of parallel mode
    gpc_K_plus_noise, \* self.K_plus_noise, K_plus_noise_inv of the collection
    gpc_casadi_predict, \* self.casadi_predict of the collection
    gpc_properties,   \* what _init_properties of the collection last stored
    model_paths,      \* self.model_paths of the collection
    gpc_prediction,   \* what predict of the collection returned last
    trials,           \* the sorted list trials of hyperparameter_optimization
    documents,        \* the hyperparameter documents written so far, by name
    funcs,            \* the funcs mapping a SymbolicModel is constructed with
    sym_dict          \* self.__dict__ of the SymbolicModel

vars == <<hpo_config, study, pc, increase_runs, first_iteration, returns,
          efficiencies, seeds, Gs_rew, Gs_eff, Gss_rew, Gss_eff, i, agents,
          agent, env_func, total_runs, result, raised, batches,
          fault, repLog, passLog,
          hps_dict, hp, key, id, dx, perturbation, written, hp_path,
          gp_class, model, K_plus_noise, casadi_predict, files, train_x,
          n_train, loss, last_loss, best_loss, test_loss, best_epoch, hist,
          calls, prediction,
          parallel, target_mask, gp_list, gps, gpc_K_plus_noise,
          gpc_casadi_predict, gpc_properties, model_paths, gpc_prediction,
          trials, documents, funcs, sym_dict>>

\* the variables of the saving of the best trials and of the SymbolicModel
rest_vars == <<trials, documents, funcs, sym_dict>>

\* the attributes of the GaussianProcessCollection
gpc_vars == <<parallel, target_mask, gp_list, gps, gpc_K_plus_noise,
              gpc_casadi_predict, gpc_properties, model_paths,
              gpc_prediction>>

\* the variables of the Gaussian process objects
gp_vars == <<gp_class, model, K_plus_noise, casadi_predict, files, train_x,
             n_train, loss, last_loss, best_loss, test_loss, best_epoch, hist,
             calls, prediction>>

\* the variables of a call of _perturb_hps other than pc, i and raised
perturb_vars == <<hps_dict, hp, key, id, dx, perturbation, written,
                  hp_path>>

\* the locals and attributes that only objective touches
objective_vars == <<study, increase_runs, first_iteration, returns,
                    efficiencies, seeds, Gs_rew, Gs_eff, Gss_rew, Gss_eff,
                    agents, agent, env_func, total_runs, result, batches,
                    fault, repLog, passLog>>

-----------------------------------------------------------------------------
(* Bounds of the model *)

\* a trial is followed for at most this many REPEAT batches
MaxBatches == 3
\* longest batch given to _compute_cvar on its own
MaxLen == 5

-----------------------------------------------------------------------------
(* Exact fractions *)

Inf == <<1, 0>>
NoValue == <<0, 0>>

Abs(x) == IF x < 0 THEN -x ELSE x

\* a > b for a fraction a and an integer b
FracGtInt(a, b) == a[1] > b * a[2]

\* abs(a - b) > t, a possibly np.inf, b finite, t a finite fraction
AbsDiffGt(a, b, t) ==
    IF a[2] = 0
    THEN TRUE
    ELSE Abs(a[1] * b[2] - b[1] * a[2]) * t[2] > t[1] * a[2] * b[2]

FracEq(a, b) == a[1] * b[2] = b[1] * a[2]

-----------------------------------------------------------------------------
(* HPO._compute_cvar *)

RECURSIVE SumSeq(_)
SumSeq(s) == IF s = <<>> THEN 0 ELSE Head(s) + SumSeq(Tail(s))

\* x put in its place in the ascending sequence s
RECURSIVE Insert(_, _)
Insert(x, s) ==
    IF s = <<>> THEN <<x>>
    ELSE IF x <= Head(s) THEN <<x>> \o s
    ELSE <<Head(s)>> \o Insert(x, Tail(s))

\* np.sort: ascending
RECURSIVE Sort(_)
Sort(s) == IF s = <<>> THEN <<>> ELSE Insert(Head(s), Sort(Tail(s)))

Max(a, b) == IF a > b THEN a ELSE b
Min(a, b) == IF a < b THEN a ELSE b

\* VaRIdx without the replacement of 0 by 1
VaRIdx_ZeroKept(n, alpha) == (alpha[1] * n) \div alpha[2]

\* int(alpha * n), and 1 in place of 0
VaRIdx(n, alpha) ==
    LET VaR_idx == (alpha[1] * n) \div alpha[2]
    IN  IF VaR_idx = 0 THEN 1 ELSE VaR_idx

\* sorted_returns[-VaR_idx:] when minimizing, sorted_returns[:VaR_idx] otherwise
\* (Python slices: [-0:] is the whole array, an index past the end is clipped)
CvarTail(sorted_returns, VaR_idx, dir0) ==
    LET n == Len(sorted_returns)
    IN  IF dir0 = "minimize"
        THEN IF VaR_idx = 0
             THEN sorted_returns
             ELSE SubSeq(sorted_returns, Max(1, n - VaR_idx + 1), n)
        ELSE SubSeq(sorted_returns, 1, Min(VaR_idx, n))

\* .mean() of a slice: the exact fraction sum / length (nan for an empty one)
Mean(s) == IF s = <<>> THEN NoValue ELSE <<SumSeq(s), Len(s)>>

ComputeCvar(rets, alpha, dir0) ==
    LET sorted_returns == Sort(rets)
        n == Len(sorted_returns)
    IN  Mean(CvarTail(sorted_returns, VaRIdx(n, alpha), dir0))

-----------------------------------------------------------------------------
(* The agent of one repetition, as objective sees it *)

\* what agent._run() and agent.learning_curve can give: the average return
\* and the learning curve (no curve: the attribute is absent)
RunOutcomes ==
    { [ret |-> 7,  has_curve |-> FALSE, mean_returns |-> <<>>, steps |-> <<>>],
      [ret |-> 13, has_curve |-> TRUE,  mean_returns |-> <<4, 12, 16>>,
        steps |-> <<2, 4, 8>>],
      [ret |-> 13, has_curve |-> TRUE,  mean_returns |-> <<4>>, steps |-> <<2>>] }

\* _run was not reached
NoRun == [ret |-> 0, has_curve |-> FALSE, mean_returns |-> <<>>, steps |-> <<>>]

\* np.where(mean_returns >= 0.7*avg_return)[0]
ReachedIdx(mean_returns, avg_return) ==
    { j \in 1..Len(mean_returns) : 10 * mean_returns[j] >= 7 * avg_return }

\* Efficiency taking the last point that reached the threshold
Efficiency_LastPoint(o) ==
    IF o.has_curve
    THEN LET idx == ReachedIdx(o.mean_returns, o.ret)
         IN  IF idx # {}
             THEN LET last == CHOOSE j \in idx : \A k \in idx : j >= k
                  IN  o.mean_returns[last] \div o.steps[last]
             ELSE 0
    ELSE 0

\* the efficiency of lines 150-159; the curves above divide exactly
Efficiency(o) ==
    IF o.has_curve
    THEN LET idx == ReachedIdx(o.mean_returns, o.ret)
         IN  IF idx # {}
             THEN LET first == CHOOSE j \in idx : \A k \in idx : j <= k
                  IN  o.mean_returns[first] \div o.steps[first]
             ELSE 0
    ELSE 0

\* np.random.randint(0, 10000); the seed only reaches make()
SeedVals == {4242}

-----------------------------------------------------------------------------
(* Configurations and studies objective is called with *)

\* objective and direction have the same length (the assertion of __init__)
ObjectiveDirections ==
    { <<o, d>> \in
        { <<"performance">>, <<"efficiency">>, <<"other">>,
          <<"performance", "efficiency">> }
        \X { <<"minimize">>, <<"maximize">>,
             <<"minimize", "maximize">>, <<"maximize", "minimize">> } :
        Len(o) = Len(d) }

Alphas == { <<1, 2>>, <<1, 1>> }
Thresholds == { <<1, 2>>, <<2, 1>> }
Repetitions == { 1, 2 }
WarmTrials == { 0, 2, 3 }

Configs ==
    { [objective |-> od[1], direction |-> od[2], alpha |-> a,
       repetitions |-> r, warm_trials |-> w, dynamical_runs |-> dyn,
       approximation_threshold |-> t] :
        od \in ObjectiveDirections, a \in Alphas, r \in Repetitions,
        w \in WarmTrials, dyn \in BOOLEAN, t \in Thresholds }

\* len(study.trials) counts the running trial too; best_value is the value of
\* the best completed trial of a single-objective study, if there is one
Studies ==
    { [trials |-> 2, completed |-> TRUE, best_value |-> 10],
      [trials |-> 2, completed |-> FALSE, best_value |-> 0] }

TypeOK ==
    /\ hpo_config \in Configs
    /\ study \in Studies
    /\ pc \in {"idle", "while", "for", "learn", "run", "summarize", "done",
              "raised", "cvar", "cvar_done"}
    /\ increase_runs \in BOOLEAN
    /\ first_iteration \in BOOLEAN
    /\ Len(returns) = Len(efficiencies)
    /\ i \in 0..2
    /\ agent \in 0..Len(agents)
    /\ env_func \in BOOLEAN
    /\ total_runs \in Nat
    /\ raised \in {"none", "close", "run", "best_value", "objective"}
    /\ batches \in 0..MaxBatches
    /\ fault \in {"none", "make", "reset"}

\* the state after HPO.__init__ and the creation or loading of the study
InitLocals ==
    /\ pc = "idle"
    /\ increase_runs = FALSE
    /\ first_iteration = FALSE
    /\ returns = <<>>
    /\ efficiencies = <<>>
    /\ seeds = <<>>
    /\ Gs_rew = NoValue
    /\ Gs_eff = NoValue
    /\ Gss_rew = NoValue
    /\ Gss_eff = NoValue
    /\ i = 0
    /\ agents = <<>>
    /\ agent = 0
    /\ env_func = FALSE
    /\ total_runs = 0
    /\ result = <<>>
    /\ raised = "none"
    /\ batches = 0
    /\ fault = "none"
    /\ repLog = <<>>
    /\ passLog = <<>>

\* no model, no hyperparameters, no cache, no export, no snapshot
NoParams == [call |-> -1, step |-> -1]
NoModel == [params |-> NoParams, train_inputs |-> "none", mode |-> "none"]
NoCache == [inputs |-> "none", params |-> NoParams]
NoExport == [inputs |-> "none", params |-> NoParams, K_inv |-> NoCache]
NoPrediction == [x |-> "none", params |-> NoParams, train_inputs |-> "none",
                 grad |-> FALSE]

\* an empty tensor
NoTensor == [shape |-> <<0>>, data |-> <<>>]

\* predict of the collection has not been called
NoCollectionPrediction == [x |-> 0, means |-> NoTensor, cov |-> NoTensor]

\* hyperparameter_optimization has saved nothing
SaveIdle ==
    /\ trials = <<>>
    /\ documents = {}

\* no SymbolicModel has been made
SymbolicIdle ==
    /\ funcs = <<>>
    /\ sym_dict = <<>>

RestIdle == SaveIdle /\ SymbolicIdle

\* no collection has been made
GPCIdle ==
    /\ parallel = FALSE
    /\ target_mask = <<>>
    /\ gp_list = <<>>
    /\ gps = <<>>
    /\ gpc_K_plus_noise = <<>>
    /\ gpc_casadi_predict = <<>>
    /\ gpc_properties = <<>>
    /\ model_paths = <<>>
    /\ gpc_prediction = NoCollectionPrediction

\* no Gaussian process object has been made
GPIdle ==
    /\ GPCIdle
    /\ gp_class = "none"
    /\ model = NoModel
    /\ K_plus_noise = NoCache
    /\ casadi_predict = NoExport
    /\ files = <<>>
    /\ train_x = "none"
    /\ n_train = 0
    /\ loss = 0
    /\ last_loss = 0
    /\ best_loss = 0
    /\ test_loss = 0
    /\ best_epoch = -1
    /\ hist = <<>>
    /\ calls = 0
    /\ prediction = NoPrediction

\* no call of _perturb_hps is under way
PerturbIdle ==
    /\ hps_dict = <<>>
    /\ hp = <<>>
    /\ key = 0
    /\ id = 0
    /\ dx = NoValue
    /\ perturbation = 0
    /\ written = <<>>
    /\ hp_path = ""

Init ==
    /\ hpo_config \in Configs
    /\ study \in Studies
    /\ InitLocals
    /\ PerturbIdle
    /\ GPIdle
    /\ RestIdle

-----------------------------------------------------------------------------
(* HPO.objective *)

config_vars == <<hpo_config, study>>

\* lines 81-92: the flags and the three lists
ObjectiveEnter ==
    /\ pc = "idle"
    /\ increase_runs' = TRUE
    /\ first_iteration' = TRUE
    /\ returns' = <<>>
    /\ efficiencies' = <<>>
    /\ seeds' = <<>>
    /\ pc' = "while"
    /\ UNCHANGED <<config_vars, rest_vars, perturb_vars, gp_vars, gpc_vars,
                   Gs_rew, Gs_eff, Gss_rew, Gss_eff, i, agents,
                   agent, env_func, total_runs, result, raised, batches,
                   fault, repLog, passLog>>

\* where the for loop goes with index k
ForPc(k) == IF k < hpo_config.repetitions THEN "for" ELSE "summarize"

\* lines 93-98: the head of the while loop, taken
WhileEnter ==
    /\ pc = "while"
    /\ increase_runs
    /\ batches < MaxBatches
    /\ increase_runs' = FALSE
    /\ IF first_iteration
       THEN Gs_rew' = Inf /\ Gs_eff' = Inf
       ELSE UNCHANGED <<Gs_rew, Gs_eff>>
    /\ i' = 0
    /\ batches' = batches + 1
    /\ pc' = ForPc(0)
    /\ UNCHANGED <<config_vars, rest_vars, perturb_vars, gp_vars, gpc_vars,
                   first_iteration, returns, efficiencies, seeds,
                   Gss_rew, Gss_eff, agents, agent, env_func, total_runs,
                   result, raised, fault, repLog, passLog>>

\* lines 100-122, nothing raises: the seed is recorded, the agent made and reset
ConstructOk ==
    /\ pc = "for"
    /\ i < hpo_config.repetitions
    /\ \E seed \in SeedVals : seeds' = Append(seeds, seed)
    /\ env_func' = TRUE
    /\ agents' = Append(agents, "ready")
    /\ agent' = Len(agents) + 1
    /\ fault' = "none"
    /\ pc' = "learn"
    /\ UNCHANGED <<config_vars, rest_vars, perturb_vars, gp_vars, gpc_vars,
                   increase_runs, first_iteration, returns,
                   efficiencies, Gs_rew, Gs_eff, Gss_rew, Gss_eff, i,
                   total_runs, result, raised, batches, repLog, passLog>>

\* lines 100-125, make raises: self.agent is not assigned, the fault is logged
MakeRaises ==
    /\ pc = "for"
    /\ i < hpo_config.repetitions
    /\ \E seed \in SeedVals : seeds' = Append(seeds, seed)
    /\ env_func' = TRUE
    /\ fault' = "make"
    /\ pc' = "learn"
    /\ UNCHANGED <<config_vars, rest_vars, perturb_vars, gp_vars, gpc_vars,
                   increase_runs, first_iteration, returns,
                   efficiencies, Gs_rew, Gs_eff, Gss_rew, Gss_eff, i, agents,
                   agent, total_runs, result, raised, batches, repLog, passLog>>

\* lines 100-125, agent.reset() raises: self.agent is assigned, the fault is logged
ResetRaises ==
    /\ pc = "for"
    /\ i < hpo_config.repetitions
    /\ \E seed \in SeedVals : seeds' = Append(seeds, seed)
    /\ env_func' = TRUE
    /\ agents' = Append(agents, "made")
    /\ agent' = Len(agents) + 1
    /\ fault' = "reset"
    /\ pc' = "learn"
    /\ UNCHANGED <<config_vars, rest_vars, perturb_vars, gp_vars, gpc_vars,
                   increase_runs, first_iteration, returns,
                   efficiencies, Gs_rew, Gs_eff, Gss_rew, Gss_eff, i,
                   total_runs, result, raised, batches, repLog, passLog>>

\* LearnOk without the count of line 131
LearnOk_Uncounted ==
    /\ pc = "learn"
    /\ agent # 0
    /\ total_runs' = total_runs
    /\ pc' = "run"
    /\ UNCHANGED <<config_vars, rest_vars, perturb_vars, gp_vars, gpc_vars,
                   increase_runs, first_iteration, returns,
                   efficiencies, seeds, Gs_rew, Gs_eff, Gss_rew, Gss_eff, i,
                   agents, agent, env_func, result, raised, batches, fault,
                   repLog, passLog>>

\* lines 129-131: _learn returns
LearnOk ==
    /\ pc = "learn"
    /\ agent # 0
    /\ total_runs' = total_runs + 1
    /\ pc' = "run"
    /\ UNCHANGED <<config_vars, rest_vars, perturb_vars, gp_vars, gpc_vars,
                   increase_runs, first_iteration, returns,
                   efficiencies, seeds, Gs_rew, Gs_eff, Gss_rew, Gss_eff, i,
                   agents, agent, env_func, result, raised, batches, fault,
                   repLog, passLog>>

\* LearnRaises with the break of line 144 left out: the for loop goes on
LearnRaises_NoBreak ==
    /\ pc = "learn"
    /\ agent # 0
    /\ agents' = [agents EXCEPT ![agent] = "closed"]
    /\ agent' = 0
    /\ env_func' = FALSE
    /\ returns' = Append(returns, 0)
    /\ efficiencies' = Append(efficiencies, 0)
    /\ repLog' = Append(repLog, [ret |-> 0, eff |-> 0, batch |-> batches,
                                 how |-> "learn", run |-> NoRun])
    /\ fault' = "none"
    /\ i' = i + 1
    /\ pc' = ForPc(i + 1)
    /\ UNCHANGED <<config_vars, rest_vars, perturb_vars, gp_vars, gpc_vars,
                   increase_runs, first_iteration, seeds, Gs_rew,
                   Gs_eff, Gss_rew, Gss_eff, total_runs, result, raised,
                   batches, passLog>>

\* lines 133-144: _learn raises; the handler closes and deletes the agent,
\* scores the repetition 0.0 twice and breaks out of the for loop
LearnRaises ==
    /\ pc = "learn"
    /\ agent # 0
    /\ agents' = [agents EXCEPT ![agent] = "closed"]
    /\ agent' = 0
    /\ env_func' = FALSE
    /\ returns' = Append(returns, 0)
    /\ efficiencies' = Append(efficiencies, 0)
    /\ repLog' = Append(repLog, [ret |-> 0, eff |-> 0, batch |-> batches,
                                 how |-> "learn", run |-> NoRun])
    /\ fault' = "none"
    /\ pc' = "summarize"
    /\ UNCHANGED <<config_vars, rest_vars, perturb_vars, gp_vars, gpc_vars,
                   increase_runs, first_iteration, seeds, Gs_rew,
                   Gs_eff, Gss_rew, Gss_eff, i, total_runs, result, raised,
                   batches, passLog>>

\* lines 129-135 without self.agent: the attribute lookup of line 130 raises
\* AttributeError, the handler is entered, and its first statement,
\* self.agent.close(), raises AttributeError again, which leaves objective
LearnNoAgent ==
    /\ pc = "learn"
    /\ agent = 0
    /\ raised' = "close"
    /\ pc' = "raised"
    /\ UNCHANGED <<config_vars, rest_vars, perturb_vars, gp_vars, gpc_vars,
                   increase_runs, first_iteration, returns,
                   efficiencies, seeds, Gs_rew, Gs_eff, Gss_rew, Gss_eff, i,
                   agents, agent, env_func, total_runs, result, batches,
                   fault, repLog, passLog>>

\* RunOk with the close and the release of lines 166-167 left out
RunOk_NoClose ==
    /\ pc = "run"
    /\ \E o \in RunOutcomes :
        LET avg_return == o.ret
            efficiency == Efficiency(o)
        IN  /\ returns' = Append(returns, avg_return)
            /\ efficiencies' = Append(efficiencies, efficiency)
            /\ repLog' = Append(repLog, [ret |-> avg_return, eff |-> efficiency,
                                         batch |-> batches, how |-> "run",
                                         run |-> o])
    /\ env_func' = FALSE
    /\ fault' = "none"
    /\ i' = i + 1
    /\ pc' = ForPc(i + 1)
    /\ UNCHANGED <<config_vars, rest_vars, perturb_vars, gp_vars, gpc_vars,
                   increase_runs, first_iteration, seeds, Gs_rew,
                   Gs_eff, Gss_rew, Gss_eff, total_runs, result, raised,
                   batches, passLog, agents, agent>>

\* lines 147-168: _run returns; the outcome is recorded, the agent closed and deleted
RunOk ==
    /\ pc = "run"
    /\ \E o \in RunOutcomes :
        LET avg_return == o.ret
            efficiency == Efficiency(o)
        IN  /\ returns' = Append(returns, avg_return)
            /\ efficiencies' = Append(efficiencies, efficiency)
            /\ repLog' = Append(repLog, [ret |-> avg_return, eff |-> efficiency,
                                         batch |-> batches, how |-> "run",
                                         run |-> o])
    /\ agents' = [agents EXCEPT ![agent] = "closed"]
    /\ agent' = 0
    /\ env_func' = FALSE
    /\ fault' = "none"
    /\ i' = i + 1
    /\ pc' = ForPc(i + 1)
    /\ UNCHANGED <<config_vars, rest_vars, perturb_vars, gp_vars, gpc_vars,
                   increase_runs, first_iteration, seeds, Gs_rew,
                   Gs_eff, Gss_rew, Gss_eff, total_runs, result, raised,
                   batches, passLog>>

\* line 147: _run raises; no handler encloses the call
RunRaises ==
    /\ pc = "run"
    /\ raised' = "run"
    /\ pc' = "raised"
    /\ UNCHANGED <<config_vars, rest_vars, perturb_vars, gp_vars, gpc_vars,
                   increase_runs, first_iteration, returns,
                   efficiencies, seeds, Gs_rew, Gs_eff, Gss_rew, Gss_eff, i,
                   agents, agent, env_func, total_runs, result, batches,
                   fault, repLog, passLog>>

\* RuleInForce with <= in place of <
RuleInForce_LessEqual ==
    hpo_config.warm_trials <= study.trials /\ hpo_config.dynamical_runs

\* line 174: the guard of the escalation rule
RuleInForce ==
    hpo_config.warm_trials < study.trials /\ hpo_config.dynamical_runs

\* study.best_value has a value: optuna raises RuntimeError for a study with
\* several objectives and ValueError for one with no completed trial
BestValueDefined ==
    Len(hpo_config.direction) = 1 /\ study.completed

\* FirstTest with >= in place of >
FirstTest_GreaterEqual(rew) ==
    rew[1] >= study.best_value * rew[2] \/ first_iteration = FALSE

\* line 175
FirstTest(rew) == FracGtInt(rew, study.best_value) \/ first_iteration = FALSE

\* line 176
SecondTest(rew) == AbsDiffGt(Gs_rew, rew, hpo_config.approximation_threshold)

\* TailDirection taking the direction of the last objective
TailDirection_Last == hpo_config.direction[Len(hpo_config.direction)]

\* line 317: the tail of both summaries is chosen by
\* self.hpo_config.direction[0]
TailDirection == hpo_config.direction[1]

\* SummaryOf over the outcomes of the latest batch only
SummaryOf_LatestBatch(lst) ==
    LET latest == { k \in DOMAIN repLog : repLog[k].batch = batches }
        from == CHOOSE k \in latest : \A j \in latest : k <= j
    IN  ComputeCvar(SubSeq(lst, from, Len(lst)), hpo_config.alpha,
                    hpo_config.direction[1])

\* lines 170-171: self._compute_cvar(np.array(lst), self.hpo_config.alpha)
SummaryOf(lst) == ComputeCvar(lst, hpo_config.alpha, TailDirection)

\* NextBaseline that keeps the CVaR of the first pass as the baseline
NextBaseline_FirstPass(kept, cvar) ==
    IF first_iteration THEN cvar ELSE kept

\* line 179: the baseline for the next pass when this pass, whose CVaR is
\* cvar, escalates; kept is the baseline this pass was compared with
NextBaseline(kept, cvar) == cvar

\* lines 170-182: both CVaRs over the lists, then the escalation rule
Summarize ==
    /\ pc = "summarize"
    /\ LET rew == SummaryOf(returns)
           eff == SummaryOf(efficiencies)
       IN  /\ Gss_rew' = rew
           /\ Gss_eff' = eff
           /\ passLog' = Append(passLog, rew)
           /\ IF RuleInForce /\ ~BestValueDefined
              THEN /\ raised' = "best_value"
                   /\ pc' = "raised"
                   /\ UNCHANGED <<increase_runs, first_iteration, Gs_rew, Gs_eff>>
              ELSE /\ pc' = "while"
                   /\ raised' = raised
                   /\ IF RuleInForce /\ FirstTest(rew) /\ SecondTest(rew)
                      THEN /\ increase_runs' = TRUE
                           /\ first_iteration' = FALSE
                           /\ Gs_rew' = NextBaseline(Gs_rew, rew)
                           /\ Gs_eff' = NextBaseline(Gs_eff, eff)
                      ELSE /\ increase_runs' = FALSE
                           /\ UNCHANGED <<first_iteration, Gs_rew, Gs_eff>>
    /\ UNCHANGED <<config_vars, rest_vars, perturb_vars, gp_vars, gpc_vars,
                   returns, efficiencies, seeds, i, agents, agent,
                   env_func, total_runs, result, batches, fault, repLog>>

\* x in lst, for a Python list
InList(x, lst) == \E k \in DOMAIN lst : lst[k] = x

\* ObjectiveValue whose first test forgets "'efficiency' not in"
ObjectiveValue_FirstTestShort(return_cvar, efficiency_cvar) ==
    LET perf == InList("performance", hpo_config.objective)
        effi == InList("efficiency", hpo_config.objective)
    IN  IF perf THEN <<return_cvar>>
        ELSE IF effi /\ ~perf THEN <<efficiency_cvar>>
        ELSE IF perf /\ effi THEN <<return_cvar, efficiency_cvar>>
        ELSE <<>>

\* lines 189-196: the value returned, a single value as a 1-tuple; <<>> stands
\* for raise ValueError
ObjectiveValue(return_cvar, efficiency_cvar) ==
    LET perf == InList("performance", hpo_config.objective)
        effi == InList("efficiency", hpo_config.objective)
    IN  IF perf /\ ~effi THEN <<return_cvar>>
        ELSE IF effi /\ ~perf THEN <<efficiency_cvar>>
        ELSE IF perf /\ effi THEN <<return_cvar, efficiency_cvar>>
        ELSE <<>>

\* lines 184-196: the while loop is left and the objective value composed
Return ==
    /\ pc = "while"
    /\ ~increase_runs
    /\ LET value == ObjectiveValue(Gss_rew, Gss_eff)
       IN  IF value # <<>>
           THEN result' = value /\ pc' = "done" /\ raised' = raised
           ELSE result' = result /\ pc' = "raised" /\ raised' = "objective"
    /\ UNCHANGED <<config_vars, rest_vars, perturb_vars, gp_vars, gpc_vars,
                   increase_runs, first_iteration, returns,
                   efficiencies, seeds, Gs_rew, Gs_eff, Gss_rew, Gss_eff, i,
                   agents, agent, env_func, total_runs, batches, fault,
                   repLog, passLog>>

Next ==
    \/ ObjectiveEnter
    \/ WhileEnter
    \/ ConstructOk
    \/ MakeRaises
    \/ ResetRaises
    \/ LearnOk
    \/ LearnRaises
    \/ LearnNoAgent
    \/ RunOk
    \/ RunRaises
    \/ Summarize
    \/ Return

Spec == Init /\ [][Next]_vars

-----------------------------------------------------------------------------
(* Properties of HPO.objective *)

AllClosed == \A a \in DOMAIN agents : agents[a] = "closed"

\* the body of the while loop has been left after its summarize step
AfterSummarize ==
    \/ pc \in {"while", "done"}
    \/ pc = "raised" /\ raised \in {"best_value", "objective"}

\* the repetition that appended entry k of repLog was ended by a fault of _learn
LearnFaultAt(k) == k \in DOMAIN repLog /\ repLog[k].how = "learn"

\* C1: a repetition whose _learn raises adds exactly one 0.0 to returns and
\* one 0.0 to efficiencies, is the last repetition of its batch, has its
\* agent closed, lets no exception leave objective, and is followed by the
\* summarize step, which computes the CVaR over the accumulated values.
C1_LearnFaultScoredZero ==
    /\ Len(returns) = Len(repLog)
    /\ Len(efficiencies) = Len(repLog)
    /\ raised # "learn"
    /\ \A k \in DOMAIN repLog :
        LearnFaultAt(k) =>
            /\ returns[k] = 0
            /\ efficiencies[k] = 0
            /\ k < Len(repLog) => repLog[k + 1].batch > repLog[k].batch
            /\ (k = Len(repLog) /\ repLog[k].batch = batches) =>
                /\ pc = "summarize" \/ AfterSummarize
                /\ agent = 0
                /\ AllClosed
                /\ AfterSummarize =>
                    /\ Len(passLog) = batches
                    /\ Gss_rew = ComputeCvar(returns, hpo_config.alpha,
                                             hpo_config.direction[1])
                    /\ Gss_eff = ComputeCvar(efficiencies, hpo_config.alpha,
                                             hpo_config.direction[1])

\* C1 witness: objective has returned after a trial whose first repetition
\* failed in _learn with another repetition left in the batch
C1_Witness ==
    /\ pc = "done"
    /\ hpo_config.repetitions = 2
    /\ Len(repLog) = 1
    /\ LearnFaultAt(1)
    /\ Len(agents) = 1
    /\ result = <<<<0, 1>>>>

\* C2: an exception of agent._run() does not leave objective (the repetition
\* is scored 0.0 and the batch abandoned instead).
C2_RunFaultNotPropagated == ~(pc = "raised" /\ raised = "run")

\* C3: a fault of the construction of the agent (make or reset) is logged and
\* does not make an exception leave objective, also when self.agent does not
\* exist (an exception of a later _run is the matter of C2).
C3_ConstructFaultNoAbort ==
    fault # "none" => ~(pc = "raised" /\ raised # "run")

\* the number of summarize passes made
Passes == Len(passLog)

\* a summarize pass has just decided whether to escalate
Decided == pc = "while" /\ Passes >= 1 /\ Passes = batches

\* a is strictly better than the integer b in the first configured direction
StrictlyImproves(a, b) ==
    IF hpo_config.direction[1] = "minimize"
    THEN a[1] < b * a[2]
    ELSE a[1] > b * a[2]

\* C4: the first summarize pass escalates only if its return-CVaR strictly
\* improves on the best value of the study in the configured direction; a
\* CVaR equal to or worse than the best value finalizes the trial.
C4_FirstPassEscalatesOnlyIfBetter ==
    (Decided /\ Passes = 1 /\ increase_runs) =>
        StrictlyImproves(passLog[1], study.best_value)

\* what the escalation rule decides at the latest pass, told from the
\* CVaRs of the passes: the first pass against the best value, every later
\* pass against the pass before it
RuleEscalates ==
    IF Passes = 1
    THEN FracGtInt(passLog[1], study.best_value)
    ELSE AbsDiffGt(passLog[Passes - 1], passLog[Passes],
                   hpo_config.approximation_threshold)

\* C5 as claimed: the rule is in force exactly when dynamical_runs is set and
\* the trial count is >= warm_trials; otherwise one batch of at most
\* repetitions runs is run and the trial finalizes.
C5_InForceAtLeastWarmTrials ==
    LET inForce == hpo_config.dynamical_runs
                   /\ study.trials >= hpo_config.warm_trials
    IN  /\ ~inForce => batches <= 1 /\ Len(seeds) <= hpo_config.repetitions
        /\ (Decided /\ BestValueDefined) =>
               (increase_runs <=> (inForce /\ RuleEscalates))

\* C5 amended: the rule is in force exactly when dynamical_runs is set and
\* the trial count is > warm_trials; otherwise one batch of at most
\* repetitions runs is run and its summarize pass finalizes the trial.
C5_InForceAboveWarmTrials ==
    LET inForce == hpo_config.dynamical_runs
                   /\ study.trials > hpo_config.warm_trials
    IN  /\ ~inForce => batches <= 1 /\ Len(seeds) <= hpo_config.repetitions
        /\ (~inForce /\ pc = "raised") => raised # "best_value"
        /\ Decided => (increase_runs <=> (inForce /\ RuleEscalates))

\* C5 witness: with as many trials as warm_trials the first pass finalizes a
\* trial whose CVaR exceeds the best value
C5_Witness ==
    /\ Decided
    /\ hpo_config.dynamical_runs
    /\ study.trials = hpo_config.warm_trials
    /\ FracGtInt(passLog[1], study.best_value)
    /\ ~increase_runs
    /\ Len(seeds) = 2

\* the configuration and study of the escalation example: warm_trials = 0,
\* dynamical_runs, minimizing one objective, best value 10, threshold t
EscalationExample(t) ==
    /\ hpo_config.warm_trials = 0
    /\ hpo_config.dynamical_runs
    /\ hpo_config.direction = <<"minimize">>
    /\ study.completed
    /\ study.best_value = 10
    /\ hpo_config.approximation_threshold = t

\* the latest pass gave CVaR b and the pass before it CVaR a
PassPair(a, b) ==
    /\ Decided
    /\ Passes >= 2
    /\ FracEq(passLog[Passes - 1], <<a, 1>>)
    /\ FracEq(passLog[Passes], <<b, 1>>)

\* C6 as claimed: in the example a trial whose first pass yields CVaR 10 goes
\* on to a second pass, and when that pass yields 9 the trial escalates with
\* threshold 0.5 and does not with threshold 2.
C6_FirstPassTenThenNine ==
    \A t \in Thresholds :
        EscalationExample(t) =>
            /\ (Decided /\ Passes = 1 /\ FracEq(passLog[1], <<10, 1>>)) =>
                   increase_runs
            /\ (PassPair(10, 9) /\ Passes = 2) =>
                   (increase_runs <=> t = <<1, 2>>)

\* C6 amended: in the example a first pass that yields CVaR 10 finalizes the
\* trial whatever the threshold (10 does not exceed the best value 10), so
\* no second pass follows it; a later pass that yields 9 after a pass that
\* yielded 10 escalates with threshold 0.5 and does not with threshold 2.
C6_LaterPassTenThenNine ==
    \A t \in Thresholds :
        EscalationExample(t) =>
            /\ (Decided /\ Passes = 1 /\ FracEq(passLog[1], <<10, 1>>)) =>
                   ~increase_runs
            /\ PassPair(10, 9) =>
                   /\ Passes > 2
                   /\ increase_runs <=> t = <<1, 2>>

\* C6 witness: with threshold 0.5 a third pass yields 9 after a second pass
\* that yielded 10, and escalates
C6_Witness ==
    /\ EscalationExample(<<1, 2>>)
    /\ PassPair(10, 9)
    /\ Passes = 3
    /\ increase_runs

\* C7: a summarize pass after the first escalates if and only if the
\* absolute difference between the CVaR of the pass just before it and its
\* own CVaR exceeds approximation_threshold, whatever the best value is.
C7_ComparesWithPrecedingPass ==
    (Decided /\ Passes >= 2) =>
        /\ RuleInForce
        /\ increase_runs <=>
               AbsDiffGt(passLog[Passes - 1], passLog[Passes],
                         hpo_config.approximation_threshold)

\* C7 witness: a third pass does not escalate although its CVaR differs from
\* that of the first pass by more than the threshold, and does not exceed
\* the best value
C7_Witness ==
    /\ Decided
    /\ Passes = 3
    /\ ~increase_runs
    /\ AbsDiffGt(passLog[1], passLog[3], hpo_config.approximation_threshold)
    /\ ~FracGtInt(passLog[3], study.best_value)

-----------------------------------------------------------------------------
(* HPO._compute_cvar on its own: every batch of 1..MaxLen values *)

CvarVals == 1..5
CvarAlphas == { <<1, 5>>, <<1, 2>>, <<3, 4>>, <<1, 1>> }

CvarConfigs ==
    { [objective |-> <<"performance">>, direction |-> <<d>>, alpha |-> a,
       repetitions |-> 1, warm_trials |-> 0, dynamical_runs |-> FALSE,
       approximation_threshold |-> <<1, 2>>] :
        d \in {"minimize", "maximize"}, a \in CvarAlphas }

Batches == UNION { [1..n -> CvarVals] : n \in 1..MaxLen }

InitCvar ==
    /\ RestIdle
    /\ hpo_config \in CvarConfigs
    /\ study \in Studies
    /\ study.completed
    /\ pc = "cvar"
    /\ increase_runs = FALSE
    /\ first_iteration = FALSE
    /\ returns \in Batches
    /\ efficiencies = <<>>
    /\ seeds = <<>>
    /\ Gs_rew = NoValue
    /\ Gs_eff = NoValue
    /\ Gss_rew = NoValue
    /\ Gss_eff = NoValue
    /\ i = 0
    /\ agents = <<>>
    /\ agent = 0
    /\ env_func = FALSE
    /\ total_runs = 0
    /\ result = <<>>
    /\ raised = "none"
    /\ batches = 0
    /\ fault = "none"
    /\ repLog = <<>>
    /\ passLog = <<>>
    /\ PerturbIdle
    /\ GPIdle

\* a call self._compute_cvar(np.array(returns), self.hpo_config.alpha)
ComputeCvarCall ==
    /\ pc = "cvar"
    /\ Gss_rew' = ComputeCvar(returns, hpo_config.alpha, hpo_config.direction[1])
    /\ pc' = "cvar_done"
    /\ UNCHANGED <<config_vars, rest_vars, perturb_vars, gp_vars, gpc_vars,
                   increase_runs, first_iteration, returns,
                   efficiencies, seeds, Gs_rew, Gs_eff, Gss_eff, i, agents,
                   agent, env_func, total_runs, result, raised, batches,
                   fault, repLog, passLog>>

NextCvar == ComputeCvarCall

SpecCvar == InitCvar /\ [][NextCvar]_vars

RECURSIVE SumAt(_, _)
SumAt(s, S) ==
    IF S = {} THEN 0
    ELSE LET j == CHOOSE x \in S : TRUE
         IN  s[j] + SumAt(s, S \ {j})

\* S holds the positions of k largest values of the batch s
Largest(s, S, k) ==
    /\ Cardinality(S) = k
    /\ \A a \in S : \A b \in (DOMAIN s) \ S : s[a] >= s[b]

\* S holds the positions of k smallest values of the batch s
Smallest(s, S, k) ==
    /\ Cardinality(S) = k
    /\ \A a \in S : \A b \in (DOMAIN s) \ S : s[a] <= s[b]

\* C8: for a batch of n >= 1 values and alpha in (0, 1] _compute_cvar gives
\* the mean of exactly max(1, floor(alpha*n)) values, the largest ones when
\* minimizing and the smallest ones when maximizing; [1,2,3,4,5] with
\* alpha = 0.2 gives 5 when minimizing and 1 when maximizing.
C8_CvarIsMeanOfTail ==
    pc = "cvar_done" =>
        LET n == Len(returns)
            floor == (hpo_config.alpha[1] * n) \div hpo_config.alpha[2]
            k == IF floor >= 1 THEN floor ELSE 1
            minimizing == hpo_config.direction[1] = "minimize"
        IN  /\ Gss_rew[2] = k
            /\ \E S \in SUBSET (1..n) :
                   /\ IF minimizing
                      THEN Largest(returns, S, k)
                      ELSE Smallest(returns, S, k)
                   /\ Gss_rew[1] = SumAt(returns, S)
            /\ (returns = <<1, 2, 3, 4, 5>> /\ hpo_config.alpha = <<1, 5>>) =>
                   Gss_rew = IF minimizing THEN <<5, 1>> ELSE <<1, 1>>

\* C8 witness: an unsorted batch of which two values are averaged, and they
\* are the two largest
C8_Witness ==
    /\ pc = "cvar_done"
    /\ returns = <<4, 1, 5, 2>>
    /\ hpo_config.alpha = <<1, 2>>
    /\ hpo_config.direction[1] = "minimize"
    /\ Gss_rew = <<9, 2>>

-----------------------------------------------------------------------------
(* Accumulation and composition *)

\* every return and every efficiency recorded since the trial started
AllReturns == [k \in DOMAIN repLog |-> repLog[k].ret]
AllEfficiencies == [k \in DOMAIN repLog |-> repLog[k].eff]

CvarOf(pool) == ComputeCvar(pool, hpo_config.alpha, hpo_config.direction[1])

\* C9: at every summarize pass both CVaRs are computed over all the outcomes
\* recorded since the trial started, and the value objective returns is made
\* of the CVaRs of the last pass over that pool.
C9_CvarOverAccumulatedPool ==
    (AfterSummarize /\ Passes >= 1 /\ Passes = batches) =>
        /\ Gss_rew = CvarOf(AllReturns)
        /\ Gss_eff = CvarOf(AllEfficiencies)
        /\ passLog[Passes] = CvarOf(AllReturns)
        /\ pc = "done" =>
               result \in { <<CvarOf(AllReturns)>>, <<CvarOf(AllEfficiencies)>>,
                            <<CvarOf(AllReturns), CvarOf(AllEfficiencies)>> }

\* C9 witness: objective returns after two batches of two repetitions a
\* return-CVaR that differs from the CVaR of the second batch alone
C9_Witness ==
    /\ pc = "done"
    /\ batches = 2
    /\ Len(repLog) = 4
    /\ hpo_config.objective = <<"performance">>
    /\ result = <<CvarOf(AllReturns)>>
    /\ ~FracEq(result[1], CvarOf(SubSeq(AllReturns, 3, 4)))

\* C10: objective returns the return-CVaR alone for 'performance' without
\* 'efficiency', the efficiency-CVaR alone for 'efficiency' without
\* 'performance', the pair (return-CVaR, efficiency-CVaR) for both, and
\* raises for an objective list with neither.
C10_ObjectiveComposition ==
    LET perf == \E k \in 1..Len(hpo_config.objective) :
                    hpo_config.objective[k] = "performance"
        effi == \E k \in 1..Len(hpo_config.objective) :
                    hpo_config.objective[k] = "efficiency"
    IN  /\ pc = "done" =>
            /\ (perf /\ ~effi) => result = <<Gss_rew>>
            /\ (effi /\ ~perf) => result = <<Gss_eff>>
            /\ (perf /\ effi) => result = <<Gss_rew, Gss_eff>>
            /\ perf \/ effi
        /\ (pc = "raised" /\ raised = "objective") =>
            /\ ~perf /\ ~effi
            /\ result = <<>>

\* C10 witness: the pair is returned, return-CVaR first
C10_Witness ==
    /\ pc = "done"
    /\ hpo_config.objective = <<"performance", "efficiency">>
    /\ result = <<Gss_rew, Gss_eff>>
    /\ ~FracEq(Gss_rew, Gss_eff)

-----------------------------------------------------------------------------
(* One agent at a time *)

\* the agents that have been constructed and not closed
OpenAgents == {a \in DOMAIN agents : agents[a] # "closed"}

\* C11: the repetitions of objective are sequential: at most one agent is
\* open at a time and it is the newest one, held by self.agent; an agent is
\* constructed only while no agent is open; and when objective returns,
\* after successful runs and after a fault of _learn alike, every agent that
\* was constructed has been closed and released.
C11_OneAgentAtATime ==
    /\ Cardinality(OpenAgents) <= 1
    /\ \A a \in OpenAgents : a = Len(agents) /\ agent = a
    /\ pc = "for" => OpenAgents = {} /\ agent = 0
    /\ pc \in {"learn", "run"} /\ agent # 0 => OpenAgents = {agent}
    /\ pc = "done" => AllClosed /\ agent = 0

\* C11 witness: objective has returned after three agents, two of them run
\* to completion and the last one ended by a fault of _learn
C11_Witness ==
    /\ pc = "done"
    /\ Len(agents) = 3
    /\ AllClosed
    /\ Len(repLog) = 3
    /\ repLog[1].how = "run" /\ repLog[2].how = "run"
    /\ LearnFaultAt(3)

-----------------------------------------------------------------------------
(* HPO._perturb_hps, the branch taken when hp_path is ''                   *)
(*                                                                         *)
(* Numbers.  A float is a point of a uniform grid and is kept as its       *)
(* integer number of grid steps; an int is kept as itself.  The step dx is *)
(* an exact fraction <<num, den>>, and <<0, 0>> while no statement has     *)
(* assigned it.  The sum base + i*dx is rounded to the nearest grid point, *)
(* as the floating-point addition rounds it, so a step that has become     *)
(* small against the grid is absorbed by the base.                         *)

\* the types a chosen value can have: the four the code names, a numpy
\* scalar (np.int64, np.float32: arithmetic works, isinstance of float and
\* int fails), a list of numpy scalars, and None
KnownTypes == {"str", "float", "int", "list_float", "list_int"}
UnknownTypes == {"numpy", "list_numpy", "none"}

\* the entries of HYPERPARAMS_DICT: name, section, the values listed, the
\* types and the values tried for the chosen value
gamma ==
    [name |-> "gamma", section |-> "categorical", values |-> <<30, 0, 10>>,
     types |-> {"float", "list_float", "numpy", "list_numpy", "none"},
     probes |-> {0, 10, 12, 30}]
hidden_dim ==
    [name |-> "hidden_dim", section |-> "categorical", values |-> <<4, 2, 3>>,
     types |-> {"int", "list_int", "numpy", "list_numpy", "none"},
     probes |-> {2, 3, 4}]
activation ==
    [name |-> "activation", section |-> "categorical", values |-> <<2, 1>>,
     types |-> {"str"}, probes |-> {1, 2}]
max_env_steps ==
    [name |-> "max_env_steps", section |-> "categorical", values |-> <<8, 4>>,
     types |-> {"int"}, probes |-> {4, 8}]
actor_lr ==
    [name |-> "actor_lr", section |-> "float", values |-> <<0, 40>>,
     types |-> {"float", "list_float", "numpy", "str"},
     probes |-> {0, 36, 40}]

\* HYPERPARAMS_DICT[algo] for three algorithms: the categorical keys come
\* first, as the two loops visit them
HYPERPARAMS_DICT ==
    { <<gamma, hidden_dim>>, <<activation, max_env_steps>>,
      <<hidden_dim, actor_lr>> }

\* key not in hp
Absent == [present |-> FALSE, type |-> "none", val |-> 0, len |-> 0]

\* what hp can hold for an entry of the dictionary; a list has two elements
ChosenValues(entry) ==
    {Absent} \cup
    { [present |-> TRUE, type |-> t, val |-> v,
       len |-> IF t \in {"list_float", "list_int", "list_numpy"} THEN 2 ELSE 0] :
        t \in entry.types, v \in entry.probes }

\* side_perturb_num, divisor, algo_config['rollout_batch_size'] and
\* hp['rollout_steps'], which only the step of max_env_steps reads
PerturbConfigs ==
    [side_perturb_num : {1, 2}, divisor : {1, 4}, rollout_batch_size : {2},
     rollout_steps : {3}]

IsList(v) == v.type \in {"list_float", "list_int", "list_numpy"}

\* Python indexing of a sequence
At(s, j) == s[j + 1]

\* interval = sorted(hps_dict[section][key]), and max(interval), min(interval)
Interval(k) == Sort(hps_dict[k].values)
MaxOf(interval) == At(interval, Len(interval) - 1)
MinOf(interval) == At(interval, 0)

\* lines 343-352: the index of v in interval and, when v is not there, the
\* first index of a value nearest to v
IndexOf(interval, v) ==
    LET J == 0..(Len(interval) - 1)
    IN  IF \E j \in J : At(interval, j) = v
        THEN CHOOSE j \in J : At(interval, j) = v
                              /\ \A l \in J : At(interval, l) = v => j <= l
        ELSE CHOOSE j \in J :
                /\ \A l \in J : Abs(At(interval, j) - v) <= Abs(At(interval, l) - v)
                /\ \A l \in J : l < j =>
                       Abs(At(interval, l) - v) > Abs(At(interval, j) - v)

\* lines 360-381: the step of a categorical key; a list whose first element
\* is neither float nor int passes every branch and leaves dx as it was
StepSize(entry, v, interval, j) ==
    IF v.type \in {"float", "list_float"}
    THEN IF j < Len(interval) - 1 /\ j > 0
         THEN <<At(interval, j + 1) - At(interval, j - 1), hpo_config.divisor>>
         ELSE IF j = 0
              THEN <<(At(interval, j + 1) - At(interval, j)) * 2, hpo_config.divisor>>
              ELSE <<(At(interval, j) - At(interval, j - 1)) * 2, hpo_config.divisor>>
    ELSE IF v.type = "int"
         THEN IF entry.name = "max_env_steps"
              THEN <<hpo_config.rollout_batch_size * hpo_config.rollout_steps, 1>>
              ELSE <<1, 1>>
         ELSE IF v.type = "list_int"
              THEN <<1, 1>>
              ELSE dx

\* line 424: the step of a key of the float section
FloatStepSize(interval) ==
    <<MaxOf(interval) - MinOf(interval), hpo_config.divisor * 10>>

\* Shrunk dividing by 2
Shrunk_Halved(step) == <<step[1], step[2] * 2>>

\* lines 392, 409, 433, 447: dx = dx/10
Shrunk(step) == <<step[1], step[2] * 10>>

\* n*dx as a number of grid steps, to the nearest, a half away from zero
Steps(n, step) == (2 * n * step[1] + step[2]) \div (2 * step[2])

\* lines 388-391, 405-408: the while loop is left for an int and a list of int
IntBreak(v) == v.type \in {"int", "list_int"}

\* the value the candidates are counted from: interval[id] in the
\* categorical section, hp[key] or hp[key][0] in the float section
Base(k) ==
    IF hps_dict[k].section = "categorical"
    THEN At(Interval(k), id)
    ELSE hp[k].val

InitPerturb ==
    /\ RestIdle
    /\ hpo_config \in PerturbConfigs
    /\ hps_dict \in HYPERPARAMS_DICT
    /\ hp \in [1..Len(hps_dict) -> UNION {ChosenValues(hps_dict[k]) : k \in 1..Len(hps_dict)}]
    /\ \A k \in 1..Len(hps_dict) : hp[k] \in ChosenValues(hps_dict[k])
    /\ \E k \in 1..Len(hps_dict) : hp[k].present
    /\ key = 1
    /\ id = 0
    /\ dx = NoValue
    /\ perturbation = 0
    /\ written = <<>>
    /\ hp_path = ""
    /\ pc = "keys"
    /\ i = 0
    /\ raised = "none"
    /\ study \in Studies
    /\ study.completed
    /\ increase_runs = FALSE
    /\ first_iteration = FALSE
    /\ returns = <<>>
    /\ efficiencies = <<>>
    /\ seeds = <<>>
    /\ Gs_rew = NoValue
    /\ Gs_eff = NoValue
    /\ Gss_rew = NoValue
    /\ Gss_eff = NoValue
    /\ agents = <<>>
    /\ agent = 0
    /\ env_func = FALSE
    /\ total_runs = 0
    /\ result = <<>>
    /\ batches = 0
    /\ fault = "none"
    /\ repLog = <<>>
    /\ passLog = <<>>
    /\ GPIdle

\* the record of one yaml.dump: the key, the value put in tmp_hp[key],
\* whether it was put as a list, and where in the loops
Dumped(k, value, as_list, side, n) ==
    [key |-> k, value |-> value, as_list |-> as_list, side |-> side, i |-> n,
     from_file |-> hp_path # ""]

\* lines 339, 420: key not in hp
KeySkip ==
    /\ pc = "keys"
    /\ key <= Len(hps_dict)
    /\ ~hp[key].present
    /\ key' = key + 1
    /\ UNCHANGED <<hpo_config, rest_vars, objective_vars, gp_vars, gpc_vars,
                   hp_path, hps_dict, hp, id, dx,
                   perturbation, written, pc, i, raised>>

\* lines 353-358: a string; one configuration per category listed
RECURSIVE Categories(_, _)
Categories(k, values) ==
    IF values = <<>> THEN <<>>
    ELSE <<Dumped(k, Head(values), FALSE, "category", 0)>>
         \o Categories(k, Tail(values))

KeyStr ==
    /\ pc = "keys"
    /\ key <= Len(hps_dict)
    /\ hp[key].present
    /\ hps_dict[key].section = "categorical"
    /\ hp[key].type = "str"
    /\ id' = IndexOf(Interval(key), hp[key].val)
    /\ written' = written \o Categories(key, hps_dict[key].values)
    /\ key' = key + 1
    /\ UNCHANGED <<hpo_config, rest_vars, objective_vars, gp_vars, gpc_vars,
                   hp_path, hps_dict, hp, dx, perturbation,
                   pc, i, raised>>

\* lines 342-383 for a value that is not a string: id, then dx by the type
KeyCategorical ==
    /\ pc = "keys"
    /\ key <= Len(hps_dict)
    /\ hp[key].present
    /\ hps_dict[key].section = "categorical"
    /\ hp[key].type \notin {"str", "none", "numpy"}
    /\ LET interval == Interval(key)
           j == IndexOf(interval, hp[key].val)
       IN  /\ id' = j
           /\ dx' = StepSize(hps_dict[key], hp[key], interval, j)
    /\ i' = 0
    /\ pc' = "right"
    /\ UNCHANGED <<hpo_config, rest_vars, objective_vars, gp_vars, gpc_vars,
                   hp_path, hps_dict, hp, key, perturbation,
                   written, raised>>

\* line 383: a value that is none of str, float, int, list
KeyUnknownType ==
    /\ pc = "keys"
    /\ key <= Len(hps_dict)
    /\ hp[key].present
    /\ hps_dict[key].section = "categorical"
    /\ hp[key].type = "numpy"
    /\ id' = IndexOf(Interval(key), hp[key].val)
    /\ raised' = "ValueError"
    /\ pc' = "raised"
    /\ UNCHANGED <<hpo_config, rest_vars, objective_vars, gp_vars, gpc_vars,
                   hp_path, hps_dict, hp, key, dx,
                   perturbation, written, i>>

\* lines 347-352 for None: the comparison finds nothing, and the
\* subtraction in the except clause raises TypeError
KeyNone ==
    /\ pc = "keys"
    /\ key <= Len(hps_dict)
    /\ hp[key].present
    /\ hps_dict[key].section = "categorical"
    /\ hp[key].type = "none"
    /\ raised' = "TypeError"
    /\ pc' = "raised"
    /\ UNCHANGED <<hpo_config, rest_vars, objective_vars, gp_vars, gpc_vars,
                   hp_path, hps_dict, hp, key, id, dx,
                   perturbation, written, i>>

\* lines 420-424: a key of the float section; no type is looked at
KeyFloat ==
    /\ pc = "keys"
    /\ key <= Len(hps_dict)
    /\ hp[key].present
    /\ hps_dict[key].section = "float"
    /\ dx' = FloatStepSize(Interval(key))
    /\ i' = 0
    /\ pc' = "right"
    /\ UNCHANGED <<hpo_config, rest_vars, objective_vars, gp_vars, gpc_vars,
                   hp_path, hps_dict, hp, key, id,
                   perturbation, written, raised>>

\* lines 385-386, 427-431: the next candidate on the right
RightCandidate ==
    /\ pc = "right"
    /\ i < hpo_config.side_perturb_num + 1
    /\ dx # NoValue
    /\ hp[key].type # "str"
    /\ perturbation' = Base(key) + Steps(i, dx)
    /\ pc' = "right_while"
    /\ UNCHANGED <<hpo_config, rest_vars, objective_vars, gp_vars, gpc_vars,
                   hp_path, hps_dict, hp, key, id, dx,
                   written, i, raised>>

\* line 386 with dx never assigned: UnboundLocalError
RightUnbound ==
    /\ pc = "right"
    /\ i < hpo_config.side_perturb_num + 1
    /\ dx = NoValue
    /\ raised' = "UnboundLocalError"
    /\ pc' = "raised"
    /\ UNCHANGED <<hpo_config, rest_vars, objective_vars, gp_vars, gpc_vars,
                   hp_path, hps_dict, hp, key, id, dx,
                   perturbation, written, i>>

\* line 431 for a string in the float section: str + float raises TypeError
RightStr ==
    /\ pc = "right"
    /\ i < hpo_config.side_perturb_num + 1
    /\ dx # NoValue
    /\ hp[key].type = "str"
    /\ raised' = "TypeError"
    /\ pc' = "raised"
    /\ UNCHANGED <<hpo_config, rest_vars, objective_vars, gp_vars, gpc_vars,
                   hp_path, hps_dict, hp, key, id, dx,
                   perturbation, written, i>>

\* the while loop on the right goes round once more
RightOutside ==
    /\ perturbation > MaxOf(Interval(key))
    /\ ~(hps_dict[key].section = "categorical" /\ IntBreak(hp[key]))

\* lines 387-393, 432-434: dx is divided and the candidate computed again
RightShrink ==
    /\ pc = "right_while"
    /\ RightOutside
    /\ ~(hps_dict[key].section = "float" /\ IsList(hp[key]))
    /\ dx' = Shrunk(dx)
    /\ perturbation' = Base(key) + Steps(i, Shrunk(dx))
    /\ UNCHANGED <<hpo_config, rest_vars, objective_vars, gp_vars, gpc_vars,
                   hp_path, hps_dict, hp, key, id, written,
                   pc, i, raised>>

\* line 434 for a list in the float section: hp[key] + (i)*dx is list + float
RightShrinkList ==
    /\ pc = "right_while"
    /\ RightOutside
    /\ hps_dict[key].section = "float" /\ IsList(hp[key])
    /\ dx' = Shrunk(dx)
    /\ raised' = "TypeError"
    /\ pc' = "raised"
    /\ UNCHANGED <<hpo_config, rest_vars, objective_vars, gp_vars, gpc_vars,
                   hp_path, hps_dict, hp, key, id,
                   perturbation, written, i>>

\* lines 395-398, 521-524 and 563-566 put [perturbation]*len(hp[key]) in
\* tmp_hp[key] for a list; line 436, the float section when hp is given in
\* memory, puts the bare number even for a list
RightAsList(k) ==
    IsList(hp[k]) /\ (hps_dict[k].section = "categorical" \/ hp_path # "")

\* lines 394-400, 435-438, 520-526, 562-568: the candidate is dumped
RightDump ==
    /\ pc = "right_while"
    /\ ~RightOutside
    /\ written' = Append(written,
          Dumped(key, perturbation, RightAsList(key), "right", i))
    /\ i' = i + 1
    /\ pc' = "right"
    /\ UNCHANGED <<hpo_config, rest_vars, objective_vars, gp_vars, gpc_vars,
                   hp_path, hps_dict, hp, key, id, dx,
                   perturbation, raised>>

\* lines 402, 440: the loop on the right is over
RightDone ==
    /\ pc = "right"
    /\ i >= hpo_config.side_perturb_num + 1
    /\ i' = 0
    /\ pc' = "left"
    /\ UNCHANGED <<hpo_config, rest_vars, objective_vars, gp_vars, gpc_vars,
                   hp_path, hps_dict, hp, key, id, dx,
                   perturbation, written, raised>>

\* lines 402-403, 440-444: the next candidate on the left
LeftCandidate ==
    /\ pc = "left"
    /\ i < hpo_config.side_perturb_num
    /\ perturbation' = Base(key) - Steps(i + 1, dx)
    /\ pc' = "left_while"
    /\ UNCHANGED <<hpo_config, rest_vars, objective_vars, gp_vars, gpc_vars,
                   hp_path, hps_dict, hp, key, id, dx,
                   written, i, raised>>

\* the while loop on the left goes round once more
LeftOutside ==
    /\ perturbation < MinOf(Interval(key))
    /\ ~(hps_dict[key].section = "categorical" /\ IntBreak(hp[key]))

\* lines 404-410, 446-451: dx is divided and the candidate computed again
LeftShrink ==
    /\ pc = "left_while"
    /\ LeftOutside
    /\ dx' = Shrunk(dx)
    /\ perturbation' = Base(key) - Steps(i + 1, Shrunk(dx))
    /\ UNCHANGED <<hpo_config, rest_vars, objective_vars, gp_vars, gpc_vars,
                   hp_path, hps_dict, hp, key, id, written,
                   pc, i, raised>>

\* lines 411-417, 452-458: the candidate is dumped, as a list for a list
LeftDump ==
    /\ pc = "left_while"
    /\ ~LeftOutside
    /\ written' = Append(written,
          Dumped(key, perturbation, IsList(hp[key]), "left", i))
    /\ i' = i + 1
    /\ pc' = "left"
    /\ UNCHANGED <<hpo_config, rest_vars, objective_vars, gp_vars, gpc_vars,
                   hp_path, hps_dict, hp, key, id, dx,
                   perturbation, raised>>

\* the loop on the left is over: on to the next key
LeftDone ==
    /\ pc = "left"
    /\ i >= hpo_config.side_perturb_num
    /\ key' = key + 1
    /\ pc' = "keys"
    /\ UNCHANGED <<hpo_config, rest_vars, objective_vars, gp_vars, gpc_vars,
                   hp_path, hps_dict, hp, id, dx,
                   perturbation, written, i, raised>>

\* yaml.load gives str, float, int, list and None, and no numpy scalar
FromYaml(v) == v.type \in KnownTypes \cup {"none"}

\* lines 459-464: _perturb_hps(hp_path=...) is called for the document the
\* same hyperparameters were dumped to (lines 244-247); hp is loaded from it
PerturbFromFile ==
    /\ pc = "perturbed"
    /\ hp_path = ""
    /\ \A k \in 1..Len(hp) : hp[k].present => FromYaml(hp[k])
    /\ hp_path' = "hp.yaml"
    /\ key' = 1
    /\ id' = 0
    /\ dx' = NoValue
    /\ perturbation' = 0
    /\ i' = 0
    /\ pc' = "keys"
    /\ UNCHANGED <<hpo_config, rest_vars, objective_vars, gp_vars, gpc_vars,
                   hps_dict, hp, written, raised>>

\* both loops over the keys are over
PerturbReturn ==
    /\ pc = "keys"
    /\ key > Len(hps_dict)
    /\ pc' = "perturbed"
    /\ UNCHANGED <<hpo_config, rest_vars, objective_vars, gp_vars, gpc_vars,
                   perturb_vars, i, raised>>

NextPerturb ==
    \/ KeySkip
    \/ KeyStr
    \/ KeyCategorical
    \/ KeyUnknownType
    \/ KeyNone
    \/ KeyFloat
    \/ RightCandidate
    \/ RightUnbound
    \/ RightStr
    \/ RightShrink
    \/ RightShrinkList
    \/ RightDump
    \/ RightDone
    \/ LeftCandidate
    \/ LeftShrink
    \/ LeftDump
    \/ LeftDone
    \/ PerturbReturn
    \/ PerturbFromFile

SpecPerturb == InitPerturb /\ [][NextPerturb]_vars

-----------------------------------------------------------------------------
(* The siblings _perturb_hps writes *)

NumericTypes == {"float", "int", "list_float", "list_int"}

\* the configurations dumped for key k, as positions of written
DumpedFor(k) == {n \in DOMAIN written : written[n].key = k}

\* value lies within the interval of key k
Inside(k, value) ==
    MinOf(Interval(k)) <= value /\ value <= MaxOf(Interval(k))

\* C12: for every numeric key (float or int, scalar or list, of either
\* section) whose chosen value lies inside the interval, every value
\* _perturb_hps writes for the key lies within [min(interval), max(interval)].
C12_SiblingsInsideInterval ==
    \A n \in DOMAIN written :
        (/\ hp[written[n].key].type \in NumericTypes
         /\ Inside(written[n].key, hp[written[n].key].val))
            => Inside(written[n].key, written[n].value)

\* the candidate is outside the interval on the side the loop is at
CandidateOutside ==
    \/ pc = "right_while" /\ perturbation > MaxOf(Interval(key))
    \/ pc = "left_while" /\ perturbation < MinOf(Interval(key))

\* the candidate that the loop the call is at computes with the step given
Recomputed(step) ==
    IF pc = "right_while"
    THEN Base(key) + Steps(i, step)
    ELSE Base(key) - Steps(i + 1, step)

\* C13 as stated: whenever a candidate falls outside the interval the step is
\* halved and the candidate computed again from the halved step.
C13_StepHalved ==
    [][CandidateOutside =>
          /\ dx' = <<dx[1], dx[2] * 2>>
          /\ perturbation' = Recomputed(dx')]_vars

\* C13 amended: a candidate outside the interval has its step divided by 10
\* and is computed again from the divided step, nothing being written, and
\* this is repeated until the candidate is inside, so that what is written
\* for such a key is inside; an int and a list of int of the categorical
\* section are written as they are with the step untouched; a list of the
\* float section raises TypeError at the first division on the right.
C13_StepDividedByTen ==
    [][/\ CandidateOutside =>
            IF hps_dict[key].section = "categorical" /\ IntBreak(hp[key])
            THEN /\ dx' = dx
                 /\ Len(written') = Len(written) + 1
                 /\ written'[Len(written')].value = perturbation
            ELSE IF /\ hps_dict[key].section = "float"
                    /\ IsList(hp[key])
                    /\ pc = "right_while"
                 THEN pc' = "raised" /\ raised' = "TypeError" /\ written' = written
                 ELSE /\ dx' = <<dx[1], dx[2] * 10>>
                      /\ perturbation' = Recomputed(dx')
                      /\ written' = written
                      /\ pc' = pc /\ i' = i /\ key' = key
       /\ (/\ pc \in {"right_while", "left_while"}
           /\ written' # written
           /\ ~(hps_dict[key].section = "categorical" /\ IntBreak(hp[key])))
            => /\ Inside(key, perturbation)
               /\ written'[Len(written')].value = perturbation]_vars

\* C13 witness: the step of a float of the categorical section has been
\* divided twice, by 100 in all, and the candidate has come inside
C13_Witness ==
    /\ pc = "right_while"
    /\ hps_dict[key].section = "categorical"
    /\ hp[key].type = "float"
    /\ i >= 1
    /\ dx[2] = hpo_config.divisor * 100
    /\ Inside(key, perturbation)

\* the values written for key k above and below the chosen value
Above(k) == {written[n].value : n \in {m \in DumpedFor(k) : written[m].value > hp[k].val}}
Below(k) == {written[n].value : n \in {m \in DumpedFor(k) : written[m].value < hp[k].val}}

\* C14: when _perturb_hps has returned, every numeric key present in hp has
\* side_perturb_num siblings above the chosen value and side_perturb_num
\* below it, and every configuration written for the key changes that key
\* alone.
C14_SiblingsOnEachSide ==
    pc = "perturbed" =>
        \A k \in 1..Len(hps_dict) :
            (hp[k].present /\ hp[k].type \in NumericTypes) =>
                /\ Cardinality(Above(k)) = hpo_config.side_perturb_num
                /\ Cardinality(Below(k)) = hpo_config.side_perturb_num
                /\ \A n \in DumpedFor(k) : written[n].key = k

\* C15: a key whose chosen value has an unknown type makes _perturb_hps
\* raise the configuration error of line 383: the call never reaches the
\* loops of such a key, with a step that is unassigned or left by an
\* earlier key, and no other exception ends it.
C15_UnknownTypeIsConfigurationError ==
    (key \in 1..Len(hps_dict) /\ hp[key].present
     /\ hp[key].type \in UnknownTypes
     /\ hps_dict[key].section = "categorical") =>
        /\ pc \in {"keys", "raised"}
        /\ pc = "raised" => raised = "ValueError"

-----------------------------------------------------------------------------
(* gp_utils.py: GaussianProcess and GaussianProcesses                      *)
(*                                                                         *)
(* Hyperparameters are followed by where they come from: the record        *)
(* [call |-> c, step |-> n] is what the n-th optimizer step of call c left *)
(* in the model, [call |-> 0, step |-> 0] what the constructor of the      *)
(* model put there.  A data set is followed by its name.  The kernel cache *)
(* K_plus_noise, K_plus_noise_inv is one value: the two are computed by    *)
(* the same two lines from the same inputs and hyperparameters.            *)

\* a train call makes at most this many iterations
MaxIters == 3
\* an object sees at most this many calls of train and init_with_hyperparam
MaxCalls == 2

\* last_loss = 99999999 and best_loss = 99999999
LossSentinel == 99999999
\* the 1e-2 of the loop condition
LossTolerance == <<1, 100>>

\* a - b exceeds the tolerance t in size; a and b are whole numbers, for
\* which abs(a - b) > t is abs(a - b) > floor(t)
Exceeds(a, b, t) == Abs(a - b) > t[1] \div t[2]

\* the values the training loss and the held-out loss can take
Losses == {5, 6, LossSentinel}
TestLosses == {3, 4}
DataSets == {"X1", "X2"}
Queries == {"q"}

\* os.path.join(output_dir, 'best_model.pth'), and f'best_model_{t}.pth'
DefaultName == [stem |-> "best_model", dim |-> -1]
SnapshotName(t) == [stem |-> "best_model", dim |-> t]

FreshParams == [call |-> 0, step |-> 0]

\* the locals and attributes of HPO when no method of HPO is under way
HpoIdle ==
    /\ hpo_config = <<>>
    /\ study = <<>>
    /\ increase_runs = FALSE
    /\ first_iteration = FALSE
    /\ returns = <<>>
    /\ efficiencies = <<>>
    /\ seeds = <<>>
    /\ Gs_rew = NoValue
    /\ Gs_eff = NoValue
    /\ Gss_rew = NoValue
    /\ Gss_eff = NoValue
    /\ i = 0
    /\ agents = <<>>
    /\ agent = 0
    /\ env_func = FALSE
    /\ total_runs = 0
    /\ result = <<>>
    /\ raised = "none"
    /\ batches = 0
    /\ fault = "none"
    /\ repLog = <<>>
    /\ passLog = <<>>
    /\ PerturbIdle

hpo_vars == <<hpo_config, objective_vars, perturb_vars>>

\* the object after __init__: self.model = None, nothing cached
InitGP ==
    /\ RestIdle
    /\ HpoIdle
    /\ pc = "gp_idle"
    /\ gp_class \in {"GaussianProcess", "GaussianProcesses"}
    /\ model = NoModel
    /\ K_plus_noise = NoCache
    /\ casadi_predict = NoExport
    /\ files = [f \in {DefaultName} |-> NoParams]
    /\ train_x = "none"
    /\ n_train = 0
    /\ loss = 0
    /\ last_loss = 0
    /\ best_loss = 0
    /\ test_loss = 0
    /\ best_epoch = -1
    /\ hist = <<>>
    /\ calls = 0
    /\ prediction = NoPrediction
    /\ GPCIdle

\* _init_model: GaussianProcess makes the model only when self.model is
\* None (line 854), GaussianProcesses makes a new one at every call (570)
InitModel(x) ==
    IF model = NoModel \/ gp_class = "GaussianProcesses"
    THEN [params |-> FreshParams, train_inputs |-> x, mode |-> "train"]
    ELSE model

\* lines 912-949 and 630-663: the model, the optimizer and the locals
TrainEnter ==
    /\ pc = "gp_idle"
    /\ calls < MaxCalls
    /\ \E x \in DataSets : \E n \in 0..MaxIters :
        /\ train_x' = x
        /\ n_train' = n
        /\ model' = [InitModel(x) EXCEPT !.mode = "train"]
    /\ calls' = calls + 1
    /\ last_loss' = LossSentinel
    /\ best_loss' = LossSentinel
    /\ loss' = 0
    /\ i' = 0
    /\ best_epoch' = -1
    /\ test_loss' = 0
    /\ hist' = <<>>
    /\ raised' = "none"
    /\ pc' = "gp_loop"
    /\ UNCHANGED <<hpo_config, rest_vars, objective_vars, perturb_vars, gpc_vars, gp_class,
                   K_plus_noise, casadi_predict, files, prediction>>

\* lines 950, 664: i < n_train and torch.abs(loss - last_loss) > 1e-2
LoopGoesOn ==
    /\ i < n_train
    /\ Exceeds(loss, last_loss, LossTolerance)

\* SaveNow with <= in place of <
SaveNow_Ties(t) == t <= best_loss

\* lines 971, 681: if test_loss < best_loss
SaveNow(t) == t < best_loss

\* lines 950-977 and 664-687: one iteration.  The held-out loss is measured
\* on the hyperparameters the iteration starts with, the optimizer steps,
\* and the snapshot, when one is written, holds what the step left
TrainIterate ==
    /\ pc = "gp_loop"
    /\ LoopGoesOn
    /\ \E t \in TestLosses : \E l \in Losses :
        LET stepped == [call |-> calls, step |-> i + 1]
        IN  /\ test_loss' = t
            /\ loss' = l
            /\ model' = [model EXCEPT !.params = stepped, !.mode = "train"]
            /\ IF SaveNow(t)
               THEN /\ best_loss' = t
                    /\ files' = [files EXCEPT ![DefaultName] = stepped]
                    /\ best_epoch' = i
               ELSE UNCHANGED <<best_loss, files, best_epoch>>
            /\ hist' = Append(hist, [loss |-> l, prev_loss |-> loss,
                                     test_loss |-> t,
                                     measured_on |-> model.params,
                                     saved |-> SaveNow(t)])
    /\ i' = i + 1
    /\ UNCHANGED <<hpo_config, rest_vars, objective_vars, perturb_vars, gpc_vars, gp_class,
                   K_plus_noise, casadi_predict, train_x, n_train, last_loss,
                   calls, prediction, pc, raised>>

\* ComputeGPCovariances taking the inputs the model was made with
ComputeGPCovariances_ModelInputs(x, params) ==
    [inputs |-> model.train_inputs, params |-> params]

\* _compute_GP_covariances(train_x): lines 869-873, 585-589
ComputeGPCovariances(x, params) == [inputs |-> x, params |-> params]

\* make_casadi_prediction_func: lines 1034-1059; it reads the
\* hyperparameters of the model and K_plus_noise_inv
MakeCasadiPredictionFunc(x, params, cache) ==
    [inputs |-> x, params |-> params, K_inv |-> cache]

\* lines 978-987, 688-697: the loop is over and best_epoch is bound; the
\* snapshot is loaded, then the cache is computed, then the export is built
TrainFinish ==
    /\ pc = "gp_loop"
    /\ ~LoopGoesOn
    /\ best_epoch # -1
    /\ LET loaded == files[DefaultName]
           cache == ComputeGPCovariances(train_x, loaded)
       IN  /\ model' = [model EXCEPT !.params = loaded]
           /\ K_plus_noise' = cache
           /\ casadi_predict' = MakeCasadiPredictionFunc(train_x, loaded, cache)
    /\ pc' = "gp_idle"
    /\ UNCHANGED <<hpo_config, rest_vars, objective_vars, perturb_vars, gpc_vars, gp_class, files,
                   train_x, n_train, loss, last_loss, best_loss, test_loss,
                   best_epoch, hist, calls, prediction, i, raised>>

\* lines 979, 689: the loop never wrote best_epoch, the print raises
\* UnboundLocalError and train is left with nothing loaded or computed
TrainUnbound ==
    /\ pc = "gp_loop"
    /\ ~LoopGoesOn
    /\ best_epoch = -1
    /\ raised' = "UnboundLocalError"
    /\ pc' = "gp_idle"
    /\ UNCHANGED <<hpo_config, rest_vars, objective_vars, perturb_vars, gpc_vars, gp_vars, i>>

\* init_with_hyperparam, lines 876-894 and 591-611
InitWithHyperparam ==
    /\ pc = "gp_idle"
    /\ calls < MaxCalls
    /\ files[DefaultName] # NoParams
    /\ \E x \in DataSets :
        LET loaded == files[DefaultName]
            cache == ComputeGPCovariances(x, loaded)
        IN  /\ train_x' = x
            /\ model' = [InitModel(x) EXCEPT !.params = loaded]
            /\ K_plus_noise' = cache
            /\ casadi_predict' = MakeCasadiPredictionFunc(x, loaded, cache)
    /\ calls' = calls + 1
    /\ hist' = <<>>
    /\ raised' = "none"
    /\ UNCHANGED <<hpo_config, rest_vars, objective_vars, perturb_vars, gpc_vars, gp_class, files,
                   n_train, loss, last_loss, best_loss, test_loss, best_epoch,
                   prediction, pc, i>>

\* line 887, 605: torch.load of a file that was never written raises
InitWithHyperparamNoFile ==
    /\ pc = "gp_idle"
    /\ calls < MaxCalls
    /\ files[DefaultName] = NoParams
    /\ calls' = calls + 1
    /\ raised' = "FileNotFoundError"
    /\ UNCHANGED <<hpo_config, rest_vars, objective_vars, perturb_vars, gpc_vars, gp_class, model,
                   K_plus_noise, casadi_predict, files, train_x, n_train, loss,
                   last_loss, best_loss, test_loss, best_epoch, hist,
                   prediction, pc, i>>

\* what predict computes: from the hyperparameters and the training inputs
\* the model holds
Predicted(x, grad) ==
    [x |-> x, params |-> model.params, train_inputs |-> model.train_inputs,
     grad |-> grad]

\* predict, lines 989-1024 and 701-740
Predict ==
    /\ pc = "gp_idle"
    /\ model # NoModel
    /\ model' = [model EXCEPT !.mode = "eval"]
    /\ \E x \in Queries : prediction' = Predicted(x, FALSE)
    /\ raised' = "none"
    /\ UNCHANGED <<hpo_config, rest_vars, objective_vars, perturb_vars, gpc_vars, gp_class,
                   K_plus_noise, casadi_predict, files, train_x, n_train, loss,
                   last_loss, best_loss, test_loss, best_epoch, hist, calls,
                   pc, i>>

\* prediction_jacobian, lines 1026-1032 and 742-748: predict with
\* requires_grad=True under autograd
PredictionJacobian ==
    /\ pc = "gp_idle"
    /\ model # NoModel
    /\ model' = [model EXCEPT !.mode = "eval"]
    /\ \E x \in Queries : prediction' = Predicted(x, TRUE)
    /\ raised' = "none"
    /\ UNCHANGED <<hpo_config, rest_vars, objective_vars, perturb_vars, gpc_vars, gp_class,
                   K_plus_noise, casadi_predict, files, train_x, n_train, loss,
                   last_loss, best_loss, test_loss, best_epoch, hist, calls,
                   pc, i>>

\* line 1004, 718 before any model exists: None has no attribute eval
PredictNoModel ==
    /\ pc = "gp_idle"
    /\ model = NoModel
    /\ raised # "AttributeError"
    /\ raised' = "AttributeError"
    /\ UNCHANGED <<hpo_config, rest_vars, objective_vars, perturb_vars, gpc_vars, gp_vars, pc, i>>

NextGP ==
    \/ TrainEnter
    \/ TrainIterate
    \/ TrainFinish
    \/ TrainUnbound
    \/ InitWithHyperparam
    \/ InitWithHyperparamNoFile
    \/ Predict
    \/ PredictionJacobian
    \/ PredictNoModel

SpecGP == InitGP /\ [][NextGP]_vars

-----------------------------------------------------------------------------
(* The training loop *)

\* the training loss of iteration m of the train under way
LossOf(m) == hist[m].loss

\* C16: the loop of train stops when the iteration count reaches n_train or
\* when the loss differs from the loss of the iteration before by at most
\* 1e-2, whichever comes first: no iteration is made past n_train, and none
\* follows two iterations whose losses are that close.
C16_StopsOnSmallLossChange ==
    pc = "gp_loop" =>
        /\ Len(hist) <= n_train
        /\ \A m \in 3..Len(hist) :
               Exceeds(LossOf(m - 1), LossOf(m - 2), LossTolerance)

\* iteration m of the train under way measured a held-out loss strictly
\* below that of every earlier iteration
StrictlyBest(m) == \A l \in 1..(m - 1) : hist[m].test_loss < hist[l].test_loss

\* the latest iteration that wrote the snapshot
LastSaved == CHOOSE m \in DOMAIN hist :
                 hist[m].saved /\ \A l \in DOMAIN hist : hist[l].saved => l <= m

\* C17: during train the snapshot is written only at an iteration whose
\* held-out loss is strictly below every earlier one, so that of equal
\* losses the first keeps the snapshot; the file holds what the latest such
\* iteration wrote, and when train has returned the model holds the
\* hyperparameters of that file.
C17_SnapshotAtStrictImprovement ==
    /\ \A m \in DOMAIN hist : hist[m].saved => StrictlyBest(m)
    /\ (hist # <<>> /\ \E m \in DOMAIN hist : hist[m].saved) =>
           files[DefaultName] = [call |-> calls, step |-> LastSaved]
    /\ (pc = "gp_idle" /\ hist # <<>>) =>
           /\ StrictlyBest(LastSaved)
           /\ \A m \in DOMAIN hist : hist[LastSaved].test_loss <= hist[m].test_loss
           /\ model.params = files[DefaultName]

\* C17 witness: train has returned after held-out losses 4, 3, 3; the
\* snapshot was written at the first and the second iteration and kept at
\* the third, and the model holds what the second iteration wrote
C17_Witness ==
    /\ pc = "gp_idle"
    /\ Len(hist) = 3
    /\ hist[1].test_loss = 4 /\ hist[2].test_loss = 3 /\ hist[3].test_loss = 3
    /\ hist[1].saved /\ hist[2].saved /\ ~hist[3].saved
    /\ model.params = [call |-> calls, step |-> 2]

-----------------------------------------------------------------------------
(* The kernel cache *)

\* the cache and the export are those of the hyperparameters the model holds
CacheCurrent ==
    (gp_class = "GaussianProcess" /\ pc = "gp_idle" /\ K_plus_noise # NoCache) =>
        /\ K_plus_noise.params = model.params
        /\ casadi_predict.K_inv = K_plus_noise
        /\ casadi_predict.params = model.params
        /\ casadi_predict.inputs = K_plus_noise.inputs

\* a step that ends a call of train or of init_with_hyperparam with a return
CallReturns ==
    \/ pc = "gp_loop" /\ pc' = "gp_idle" /\ raised' = "none"
    \/ pc = "gp_idle" /\ calls' = calls + 1 /\ pc' = "gp_idle" /\ raised' = "none"

\* C18: on a GaussianProcess the kernel cache is written by the end of a
\* call of train or init_with_hyperparam and by nothing else; it is then
\* computed from the training inputs of that call and from the
\* hyperparameters just loaded from the snapshot, and the export is built
\* from that cache; between such calls, predict and prediction_jacobian
\* included, cache and export stay as they are and belong to the
\* hyperparameters the model holds.
C18_CacheFromLatestTrainOrLoad ==
    [][/\ CallReturns =>
            /\ model'.params = files[DefaultName]
            /\ K_plus_noise' = [inputs |-> train_x', params |-> model'.params]
            /\ casadi_predict' = [inputs |-> train_x', params |-> model'.params,
                                  K_inv |-> K_plus_noise']
       /\ ~CallReturns =>
            /\ K_plus_noise' = K_plus_noise
            /\ casadi_predict' = casadi_predict
       /\ CacheCurrent']_vars

\* C18 witness: a GaussianProcess trained on X1 and then loaded with X2 has
\* answered a predict; the model still carries the inputs it was made with,
\* the cache is that of X2 and of the loaded hyperparameters
C18_Witness ==
    /\ gp_class = "GaussianProcess"
    /\ pc = "gp_idle"
    /\ calls = 2
    /\ hist = <<>>
    /\ model.train_inputs = "X1"
    /\ train_x = "X2"
    /\ K_plus_noise = [inputs |-> "X2", params |-> model.params]
    /\ model.params.call = 1
    /\ prediction # NoPrediction
    /\ model.mode = "eval"

-----------------------------------------------------------------------------
(* gp_utils.py: GaussianProcessCollection                                  *)
(*                                                                         *)
(* A GaussianProcess of gp_list is the record of its model, its kernel     *)
(* cache and its export.  The hyperparameters of the collection carry, as  *)
(* col, the column of the targets they were fitted on.  A call gp.train of *)
(* the loop is taken whole: it returns with the snapshot that one of its   *)
(* iterations wrote, or raises when it makes no iteration.  pc names the    *)
(* method of the collection that ran last.                                 *)

\* the variables of the single GP object that the collection leaves alone
gp_object_vars == <<gp_class, model, K_plus_noise, casadi_predict, train_x,
                    n_train, loss, last_loss, best_loss, test_loss,
                    best_epoch, hist, prediction>>

\* the target_mask a collection is made with; target_dim is its length
TargetMasks == { <<0>>, <<1, 0>>, <<0, 2>>, <<2, 0, 1>> }

NoGp == [model |-> NoModel, K_plus_noise |-> NoCache, casadi_predict |-> NoExport]

\* the files a collection can write or read
SnapshotNames == {DefaultName} \cup {SnapshotName(t) : t \in 0..2}

\* GaussianProcessCollection.__init__, lines 213-235
InitGPC ==
    /\ RestIdle
    /\ HpoIdle
    /\ pc = "gpc_new"
    /\ gp_class = "none"
    /\ model = NoModel
    /\ K_plus_noise = NoCache
    /\ casadi_predict = NoExport
    /\ files = [f \in SnapshotNames |-> NoParams]
    /\ train_x = "none"
    /\ n_train = 0
    /\ loss = 0
    /\ last_loss = 0
    /\ best_loss = 0
    /\ test_loss = 0
    /\ best_epoch = -1
    /\ hist = <<>>
    /\ calls = 0
    /\ prediction = NoPrediction
    /\ parallel \in BOOLEAN
    /\ target_mask \in TargetMasks
    /\ gp_list = IF parallel THEN <<>> ELSE [k \in 1..Len(target_mask) |-> NoGp]
    /\ gps = NoGp
    /\ gpc_K_plus_noise = <<>>
    /\ gpc_casadi_predict = <<>>
    /\ gpc_properties = <<>>
    /\ model_paths = <<>>
    /\ gpc_prediction = NoCollectionPrediction

\* _init_properties, lines 246-249
InitProperties(x) == <<x>>

\* TargetOfGp taking the GPs in the order of the columns
TargetOfGp_Position(k) == k - 1

\* lines 334-348, 268-275: the column GP k is fitted on and is named by
TargetOfGp(k) == target_mask[k]

\* gp.train returning: the model is made when there is none, the snapshot
\* written by iteration step of this call is loaded, the cache computed
\* from x and the export built
TrainedGp(g, x, col, step) ==
    LET loaded == [call |-> calls + 1, step |-> step, col |-> col]
        cache == ComputeGPCovariances(x, loaded)
    IN  [model |-> [params |-> loaded,
                    train_inputs |-> IF g.model = NoModel THEN x
                                     ELSE g.model.train_inputs,
                    mode |-> "train"],
         K_plus_noise |-> cache,
         casadi_predict |-> MakeCasadiPredictionFunc(x, loaded, cache)]

\* gp.train raising at line 979: the model is made, nothing else is done
UntrainedGp(g, x) ==
    [g EXCEPT !.model = IF g.model = NoModel
                        THEN [params |-> FreshParams, train_inputs |-> x,
                              mode |-> "train"]
                        ELSE [g.model EXCEPT !.mode = "train"]]

\* gp.init_with_hyperparam, lines 876-894, with the snapshot loaded
LoadedGp(g, x, loaded) ==
    LET cache == ComputeGPCovariances(x, loaded)
    IN  [model |-> [params |-> loaded,
                    train_inputs |-> IF g.model = NoModel THEN x
                                     ELSE g.model.train_inputs,
                    mode |-> IF g.model = NoModel THEN "train" ELSE g.model.mode],
         K_plus_noise |-> cache,
         casadi_predict |-> MakeCasadiPredictionFunc(x, loaded, cache)]

\* the files after the first done GPs of new_list have written theirs, the
\* later GP overwriting the earlier under the same name
FilesAfter(new_list, done) ==
    [f \in DOMAIN files |->
        IF \E k \in 1..done : SnapshotName(TargetOfGp(k)) = f
        THEN LET last == CHOOSE k \in 1..done :
                            /\ SnapshotName(TargetOfGp(k)) = f
                            /\ \A l \in 1..done :
                                  SnapshotName(TargetOfGp(l)) = f => l <= k
             IN  new_list[last].model.params
        ELSE files[f]]

\* torch.stack of the caches in the order of gp_list
Stacked(list) == [k \in 1..Len(list) |-> list[k].K_plus_noise]

\* make_casadi_predict_func, lines 412-434: the means of the exports in
\* the order of gp_list
MakeCasadiPredictFunc(list) == [k \in 1..Len(list) |-> list[k].casadi_predict]

GpcPositions == {"gpc_new", "gpc_train", "gpc_load", "gpc_predict"}

\* train with parallel == False, lines 326-355 and 374: every gp.train returns
CollectionTrain ==
    /\ pc \in GpcPositions
    /\ ~parallel
    /\ calls < MaxCalls
    /\ \E x \in DataSets : \E steps \in [1..Len(gp_list) -> 1..MaxIters] :
        LET new_list == [k \in 1..Len(gp_list) |->
                            TrainedGp(gp_list[k], x, TargetOfGp(k), steps[k])]
        IN  /\ gp_list' = new_list
            /\ files' = FilesAfter(new_list, Len(gp_list))
            /\ gpc_properties' = InitProperties(x)
            /\ gpc_K_plus_noise' = Stacked(new_list)
            /\ gpc_casadi_predict' = MakeCasadiPredictFunc(new_list)
    /\ model_paths' = [k \in 1..Len(gp_list) |-> "output_dir"]
    /\ calls' = calls + 1
    /\ raised' = "none"
    /\ pc' = "gpc_train"
    /\ UNCHANGED <<hpo_config, rest_vars, objective_vars, perturb_vars, gp_object_vars,
                   gpc_prediction,
                   parallel, target_mask, gps, i>>

\* train with parallel == False where the gp.train after the first done
\* ones raises (n_train of its column is 0): the stack is not reached
CollectionTrainRaises ==
    /\ pc \in GpcPositions
    /\ ~parallel
    /\ calls < MaxCalls
    /\ \E x \in DataSets : \E done \in 0..(Len(gp_list) - 1) :
       \E steps \in [1..done -> 1..MaxIters] :
        LET new_list == [k \in 1..Len(gp_list) |->
                            IF k <= done
                            THEN TrainedGp(gp_list[k], x, TargetOfGp(k), steps[k])
                            ELSE IF k = done + 1
                                 THEN UntrainedGp(gp_list[k], x)
                                 ELSE gp_list[k]]
        IN  /\ gp_list' = new_list
            /\ files' = FilesAfter(new_list, done)
            /\ gpc_properties' = InitProperties(x)
            /\ model_paths' = [k \in 1..done |-> "output_dir"]
    /\ calls' = calls + 1
    /\ raised' = "UnboundLocalError"
    /\ pc' = "gpc_train"
    /\ UNCHANGED <<hpo_config, rest_vars, objective_vars, perturb_vars, gp_object_vars,
                   gpc_prediction,
                   parallel, target_mask, gps, gpc_K_plus_noise,
                   gpc_casadi_predict, i>>

\* train with parallel == True, lines 326-328 and 356-374: one batched GP
\* is fitted on all the columns and saved as best_model.pth
CollectionTrainParallel ==
    /\ pc \in GpcPositions
    /\ parallel
    /\ calls < MaxCalls
    /\ \E x \in DataSets : \E step \in 1..MaxIters :
        LET new_gps == TrainedGp(NoGp, x, -1, step)
        IN  /\ gps' = new_gps
            /\ files' = [files EXCEPT ![DefaultName] = new_gps.model.params]
            /\ gpc_properties' = InitProperties(x)
            /\ gpc_K_plus_noise' = <<new_gps.K_plus_noise>>
            /\ gpc_casadi_predict' =
                   [k \in 1..Len(target_mask) |-> new_gps.casadi_predict]
    /\ model_paths' = <<>>
    /\ calls' = calls + 1
    /\ raised' = "none"
    /\ pc' = "gpc_train"
    /\ UNCHANGED <<hpo_config, rest_vars, objective_vars, perturb_vars, gp_object_vars,
                   gpc_prediction,
                   parallel, target_mask, gp_list, i>>

\* lines 326-328 and 357-360: the learning rates or the iteration counts
\* differ and the assert fails, after the properties were stored
CollectionTrainParallelAssert ==
    /\ pc \in GpcPositions
    /\ parallel
    /\ calls < MaxCalls
    /\ \E x \in DataSets : gpc_properties' = InitProperties(x)
    /\ model_paths' = <<>>
    /\ calls' = calls + 1
    /\ raised' = "AssertionError"
    /\ pc' = "gpc_train"
    /\ UNCHANGED <<hpo_config, rest_vars, objective_vars, perturb_vars, gp_object_vars,
                   gpc_prediction,
                   files, parallel, target_mask, gp_list, gps,
                   gpc_K_plus_noise, gpc_casadi_predict, i>>

\* the snapshot of GP k is there
HasSnapshot(k) == files[SnapshotName(TargetOfGp(k))] # NoParams

\* init_with_hyperparam with parallel == False, lines 262-283
CollectionLoad ==
    /\ pc \in GpcPositions
    /\ ~parallel
    /\ calls < MaxCalls
    /\ \A k \in 1..Len(gp_list) : HasSnapshot(k)
    /\ \E x \in DataSets :
        LET new_list == [k \in 1..Len(gp_list) |->
                            LoadedGp(gp_list[k], x,
                                     files[SnapshotName(TargetOfGp(k))])]
        IN  /\ gp_list' = new_list
            /\ gpc_properties' = InitProperties(x)
            /\ gpc_K_plus_noise' = Stacked(new_list)
            /\ gpc_casadi_predict' = MakeCasadiPredictFunc(new_list)
    /\ calls' = calls + 1
    /\ raised' = "none"
    /\ pc' = "gpc_load"
    /\ UNCHANGED <<hpo_config, rest_vars, objective_vars, perturb_vars, gp_object_vars,
                   gpc_prediction,
                   files, parallel, target_mask, gps, model_paths, i>>

\* lines 262-275 where a snapshot is missing: torch.load raises at the
\* first GP without a file, the GPs before it have been loaded
CollectionLoadNoFile ==
    /\ pc \in GpcPositions
    /\ ~parallel
    /\ calls < MaxCalls
    /\ \E k \in 1..Len(gp_list) : ~HasSnapshot(k)
    /\ \E x \in DataSets :
        LET first == CHOOSE k \in 1..Len(gp_list) :
                        ~HasSnapshot(k) /\ \A l \in 1..(k - 1) : HasSnapshot(l)
        IN  /\ gp_list' = [k \in 1..Len(gp_list) |->
                              IF k < first
                              THEN LoadedGp(gp_list[k], x,
                                            files[SnapshotName(TargetOfGp(k))])
                              ELSE gp_list[k]]
            /\ gpc_properties' = InitProperties(x)
    /\ calls' = calls + 1
    /\ raised' = "FileNotFoundError"
    /\ pc' = "gpc_load"
    /\ UNCHANGED <<hpo_config, rest_vars, objective_vars, perturb_vars, gp_object_vars,
                   gpc_prediction,
                   files, parallel, target_mask, gps, gpc_K_plus_noise,
                   gpc_casadi_predict, model_paths, i>>

\* CollectionLoadParallel with the assert after _init_properties
CollectionLoadParallel_PropertiesFirst ==
    /\ pc \in GpcPositions
    /\ parallel
    /\ calls < MaxCalls
    /\ \E x \in DataSets : gpc_properties' = InitProperties(x)
    /\ calls' = calls + 1
    /\ raised' = "AssertionError"
    /\ pc' = "gpc_load"
    /\ UNCHANGED <<hpo_config, rest_vars, objective_vars, perturb_vars, gp_object_vars,
                   gpc_prediction,
                   files, parallel, target_mask, gp_list, gps,
                   gpc_K_plus_noise, gpc_casadi_predict, model_paths, i>>

\* init_with_hyperparam with parallel == True, line 262: the assert fails
\* at the first statement
CollectionLoadParallel ==
    /\ pc \in GpcPositions
    /\ parallel
    /\ calls < MaxCalls
    /\ calls' = calls + 1
    /\ raised' = "AssertionError"
    /\ pc' = "gpc_load"
    /\ UNCHANGED <<hpo_config, rest_vars, objective_vars, perturb_vars, gp_object_vars,
                   files, gpc_vars, i>>

\* the largest number of query points in one batch x
MaxPoints == 2

\* a tensor: its shape and its elements in row-major order
Tensor(shape, data) == [shape |-> shape, data |-> data]

IsNotOne(d) == d # 1

\* torch.Tensor.squeeze, lines 405, 734-735: the dimensions of size 1 go
Squeeze(t) == Tensor(SelectSeq(t.shape, IsNotOne), t.data)

RECURSIVE CatData(_)
CatData(list) ==
    IF list = <<>> THEN <<>> ELSE Head(list).data \o CatData(Tail(list))

\* torch.cat of 2-D tensors of equal width, line 405: one below the other
TorchCat(list) ==
    Tensor(<<SumSeq([k \in 1..Len(list) |-> list[k].shape[1]]),
             list[1].shape[2]>>,
           CatData(list))

\* torch.diag accepts 1-D and 2-D tensors and raises RuntimeError otherwise
DiagDefined(t) == Len(t.shape) \in {1, 2}

\* torch.diag, lines 405 and 735: of a 1-D tensor the square matrix with it
\* on the diagonal and zeros elsewhere, of a 2-D tensor the 1-D tensor of
\* its diagonal
TorchDiag(t) ==
    IF Len(t.shape) = 1
    THEN LET n == t.shape[1]
         IN  Tensor(<<n, n>>,
                    [j \in 1..(n * n) |->
                        IF (j - 1) \div n = (j - 1) % n
                        THEN t.data[((j - 1) \div n) + 1] ELSE 0])
    ELSE LET c == t.shape[2]
             m == Min(t.shape[1], c)
         IN  Tensor(<<m>>, [j \in 1..m |-> t.data[(j - 1) * c + j]])

\* torch.tensor of a list of tensors, line 404, converts each to a scalar
\* and raises ValueError when one has more than one element
TensorDefined(list) == \A k \in 1..Len(list) : Len(list[k].data) = 1

TorchTensor(list) ==
    Tensor(<<Len(list)>>, [k \in 1..Len(list) |-> list[k].data[1]])

\* predictions.mean of GP k at n query points, lines 1015 and 1020: one
\* value per point
PosteriorMean(k, n) == Tensor(<<n>>, [p \in 1..n |-> 10 * k + p])

\* predictions.covariance_matrix of GP k at n query points, lines 1016 and
\* 1021: n by n, no entry zero
PosteriorCov(k, n) == Tensor(<<n, n>>, [j \in 1..(n * n) |-> 100 * k + j])

\* predictions.mean of the batched GP over k tasks, lines 726 and 731
BatchMean(k, n) == Tensor(<<k, n>>, [j \in 1..(k * n) |-> 10 + j])

\* predictions.covariance_matrix of the batched GP, lines 727 and 732: one
\* n by n matrix per task
BatchCov(k, n) == Tensor(<<k, n, n>>, [j \in 1..(k * n * n) |-> 100 + j])

\* model.eval() in predict, lines 1004 and 718
InEval(g) == [g EXCEPT !.model.mode = "eval"]

\* predict with parallel == False, lines 391-409, every GP having a model
CollectionPredict ==
    /\ pc \in GpcPositions
    /\ ~parallel
    /\ \A k \in 1..Len(gp_list) : gp_list[k].model # NoModel
    /\ \E n \in 1..MaxPoints :
        LET means_list == [k \in 1..Len(gp_list) |-> PosteriorMean(k, n)]
            cov_list == [k \in 1..Len(gp_list) |-> PosteriorCov(k, n)]
            squeezed == Squeeze(TorchCat(cov_list))
        IN  IF ~TensorDefined(means_list)
            THEN /\ raised' = "ValueError"
                 /\ gpc_prediction' = [NoCollectionPrediction EXCEPT !.x = n]
            ELSE IF ~DiagDefined(squeezed)
            THEN /\ raised' = "RuntimeError"
                 /\ gpc_prediction' = [NoCollectionPrediction EXCEPT !.x = n]
            ELSE /\ raised' = "none"
                 /\ gpc_prediction' = [x |-> n,
                                       means |-> TorchTensor(means_list),
                                       cov |-> TorchDiag(squeezed)]
    /\ gp_list' = [k \in 1..Len(gp_list) |-> InEval(gp_list[k])]
    /\ pc' = "gpc_predict"
    /\ UNCHANGED <<hpo_config, rest_vars, objective_vars, perturb_vars, gp_object_vars,
                   files, calls, parallel, target_mask, gps, gpc_K_plus_noise,
                   gpc_casadi_predict, gpc_properties, model_paths, i>>

\* predict with parallel == True, lines 409-410 and 718-740
CollectionPredictParallel ==
    /\ pc \in GpcPositions
    /\ parallel
    /\ gps # NoGp
    /\ \E n \in 1..MaxPoints :
        LET means == Squeeze(BatchMean(Len(target_mask), n))
            squeezed == Squeeze(BatchCov(Len(target_mask), n))
        IN  IF ~DiagDefined(squeezed)
            THEN /\ raised' = "RuntimeError"
                 /\ gpc_prediction' = [NoCollectionPrediction EXCEPT !.x = n]
            ELSE /\ raised' = "none"
                 /\ gpc_prediction' = [x |-> n, means |-> means,
                                       cov |-> TorchDiag(squeezed)]
    /\ gps' = InEval(gps)
    /\ pc' = "gpc_predict"
    /\ UNCHANGED <<hpo_config, rest_vars, objective_vars, perturb_vars, gp_object_vars,
                   files, calls, parallel, target_mask, gp_list,
                   gpc_K_plus_noise, gpc_casadi_predict, gpc_properties,
                   model_paths, i>>

\* predict before train or init_with_hyperparam made the models, lines 1004
\* and 718: None has no attribute eval
CollectionPredictNoModel ==
    /\ pc \in GpcPositions
    /\ IF parallel THEN gps = NoGp
       ELSE \E k \in 1..Len(gp_list) : gp_list[k].model = NoModel
    /\ \E n \in 1..MaxPoints :
           gpc_prediction' = [NoCollectionPrediction EXCEPT !.x = n]
    /\ gp_list' = [k \in 1..Len(gp_list) |->
                      IF \A l \in 1..k : gp_list[l].model # NoModel
                      THEN InEval(gp_list[k]) ELSE gp_list[k]]
    /\ raised' = "AttributeError"
    /\ pc' = "gpc_predict"
    /\ UNCHANGED <<hpo_config, rest_vars, objective_vars, perturb_vars, gp_object_vars,
                   files, calls, parallel, target_mask, gps, gpc_K_plus_noise,
                   gpc_casadi_predict, gpc_properties, model_paths, i>>

NextGPC ==
    \/ CollectionTrain
    \/ CollectionTrainRaises
    \/ CollectionTrainParallel
    \/ CollectionTrainParallelAssert
    \/ CollectionLoad
    \/ CollectionLoadNoFile
    \/ CollectionLoadParallel
    \/ CollectionPredict
    \/ CollectionPredictParallel
    \/ CollectionPredictNoModel

SpecGPC == InitGPC /\ [][NextGPC]_vars

-----------------------------------------------------------------------------
(* The collection *)

\* C19: in parallel mode init_with_hyperparam of the collection fails with
\* an error and leaves every attribute of the collection, every GP and
\* every file as it was.
C19_ParallelLoadFailsFirst ==
    [][(parallel /\ pc' = "gpc_load" /\ calls' # calls) =>
          /\ raised' = "AssertionError"
          /\ UNCHANGED <<gpc_vars, files, gp_object_vars>>]_vars

\* C19 witness: a collection in parallel mode that was trained has refused
\* init_with_hyperparam
C19_Witness ==
    /\ parallel
    /\ pc = "gpc_load"
    /\ raised = "AssertionError"
    /\ gps # NoGp
    /\ gpc_K_plus_noise = <<gps.K_plus_noise>>
    /\ gpc_properties # <<>>

\* C20: in per-dimension mode, after train or init_with_hyperparam has
\* returned, slice k of the stacked cache is the cache of GP k, whose
\* hyperparameters were fitted on column target_mask[k] of the targets, so
\* the stack is in the order of target_mask; and the file named by
\* target_mask[k] holds the snapshot of that GP: it is the file train wrote
\* for it and the file init_with_hyperparam loads into it.
C20_StackFollowsTargetMask ==
    (~parallel /\ pc \in {"gpc_train", "gpc_load"} /\ raised = "none") =>
        /\ Len(gpc_K_plus_noise) = Len(target_mask)
        /\ \A k \in 1..Len(target_mask) :
            /\ gpc_K_plus_noise[k] = gp_list[k].K_plus_noise
            /\ gpc_K_plus_noise[k].params = gp_list[k].model.params
            /\ gpc_K_plus_noise[k].params.col = target_mask[k]
            /\ files[[stem |-> "best_model", dim |-> target_mask[k]]]
                   = gp_list[k].model.params

\* C20 witness: a collection over the columns 2, 0, 1 was trained on X1 and
\* then loaded with X2; the first slice of the stack is the cache of the GP
\* of column 2, computed from X2 with the hyperparameters train had saved
C20_Witness ==
    /\ ~parallel
    /\ target_mask = <<2, 0, 1>>
    /\ pc = "gpc_load"
    /\ raised = "none"
    /\ calls = 2
    /\ gpc_K_plus_noise[1].inputs = "X2"
    /\ gpc_K_plus_noise[1].params.col = 2
    /\ gpc_K_plus_noise[1].params.call = 1
    /\ gp_list[1].model.train_inputs = "X1"

\* the entries of a k by k matrix off its diagonal are all zero
OffDiagonalZero(t, k) ==
    \A r \in 1..k : \A c \in 1..k : r # c => t.data[(r - 1) * k + c] = 0

\* C21: for a collection with k target dimensions whose GPs have a model
\* and any batch of one or more query points, predict returns a mean vector
\* of length k and a k by k covariance matrix whose off-diagonal entries
\* are all zero.
C21_PredictMeanAndDiagonalCovariance ==
    (/\ pc = "gpc_predict"
     /\ IF parallel THEN gps # NoGp
        ELSE \A k \in 1..Len(gp_list) : gp_list[k].model # NoModel) =>
        /\ raised = "none"
        /\ gpc_prediction.means.shape = <<Len(target_mask)>>
        /\ gpc_prediction.cov.shape = <<Len(target_mask), Len(target_mask)>>
        /\ OffDiagonalZero(gpc_prediction.cov, Len(target_mask))

-----------------------------------------------------------------------------
(* hyperparameter_optimization, hpo.py lines 199-293: the saving of the    *)
(* best trials                                                             *)
(*                                                                         *)
(* study.optimize (line 228) calls objective once per trial and is the     *)
(* specification Spec; what is modelled here starts when it has returned   *)
(* with the trials of the study.  A value is a whole number of 1e-5, so    *)
(* that values that differ only after the fourth decimal place exist; a    *)
(* trial that failed or was pruned has no value.  A document is named by   *)
(* its stem and the formatted values, and holds the params of the trial    *)
(* that was dumped into it last.                                           *)

\* the largest number of trials of a study
MaxTrials == 3

\* the value of a finished trial of a single-objective study, in 1e-5
TrialValues == {12340, 12344, 12346, 20000}

\* the values of a finished trial of a two-objective study
TrialValuePairs == {<<12340, 1>>, <<12344, 2>>, <<20000, 1>>, <<20000, 2>>}

\* a trial without a value: trial.value is None
NoTrialValue == [has_value |-> FALSE, values |-> <<>>]

\* what a trial of a study of n objectives can end with
TrialResults(n) ==
    {NoTrialValue} \cup
    { [has_value |-> TRUE, values |-> v] :
        v \in IF n = 1 THEN {<<x>> : x \in TrialValues} ELSE TrialValuePairs }

\* study.trials: trial k has number k - 1 and its params
TrialLists(n) ==
    UNION { [1..len -> TrialResults(n)] : len \in 0..MaxTrials }

\* hpo_config as far as the saving reads it
SaveConfigs ==
    { [direction |-> d, save_n_best_hps |-> n, perturb_hps |-> p] :
        d \in { <<"minimize">>, <<"maximize">>, <<"minimize", "maximize">>,
                <<"maximize", "maximize">> },
        n \in 1..3, p \in BOOLEAN }

\* the state when study.optimize has returned, line 231
InitSave ==
    /\ InitLocals
    /\ PerturbIdle
    /\ GPIdle
    /\ RestIdle
    /\ hpo_config \in SaveConfigs
    /\ \E list \in TrialLists(Len(hpo_config.direction)) :
           study = [trials |-> [k \in 1..Len(list) |->
                       [number |-> k - 1, has_value |-> list[k].has_value,
                        values |-> list[k].values]]]

\* _value_key, lines 295-305: the value, or plus or minus infinity for a
\* trial without one; <<-1, 0>> is -inf and <<1, 0>> is inf
ValueKey(trial) ==
    IF ~trial.has_value
    THEN IF hpo_config.direction[1] = "minimize" THEN <<1, 0>> ELSE <<-1, 0>>
    ELSE <<0, trial.values[1]>>

\* a < b on floats with infinities
KeyLess(a, b) == a[1] < b[1] \/ (a[1] = 0 /\ b[1] = 0 /\ a[2] < b[2])

\* list.sort is stable: x goes behind the elements that do not come after it
RECURSIVE PutAscending(_, _)
PutAscending(x, sorted) ==
    IF sorted = <<>> THEN <<x>>
    ELSE IF KeyLess(ValueKey(x), ValueKey(Head(sorted)))
         THEN <<x>> \o sorted
         ELSE <<Head(sorted)>> \o PutAscending(x, Tail(sorted))

\* list.sort(reverse=True) is stable too
RECURSIVE PutDescending(_, _)
PutDescending(x, sorted) ==
    IF sorted = <<>> THEN <<x>>
    ELSE IF KeyLess(ValueKey(Head(sorted)), ValueKey(x))
         THEN <<x>> \o sorted
         ELSE <<Head(sorted)>> \o PutDescending(x, Tail(sorted))

\* lines 238-241: trials.sort(key=self._value_key), reversed unless minimize
RECURSIVE SortTrials(_)
SortTrials(list) ==
    IF list = <<>> THEN <<>>
    ELSE LET front == SortTrials(SubSeq(list, 1, Len(list) - 1))
             last == list[Len(list)]
         IN  IF hpo_config.direction[1] = "minimize"
             THEN PutAscending(last, front)
             ELSE PutDescending(last, front)

\* a is at least as good as b in objective k
AsGood(a, b, k) ==
    IF hpo_config.direction[k] = "minimize"
    THEN a.values[k] <= b.values[k] ELSE a.values[k] >= b.values[k]

\* a dominates b
Dominates(a, b) ==
    /\ \A k \in 1..Len(hpo_config.direction) : AsGood(a, b, k)
    /\ \E k \in 1..Len(hpo_config.direction) : ~AsGood(b, a, k)

\* study.best_trials, line 249: the finished trials no other one dominates
BestTrials(list) ==
    LET OnFront(t) == /\ t.has_value
                      /\ \A k \in 1..Len(list) :
                            list[k].has_value => ~Dominates(list[k], t)
    IN  SelectSeq(list, OnFront)

\* format(v, ".4f"): v rounded to the nearest 1e-4, in units of 1e-4
Format4(v) == (v + 5) \div 10

\* the name of the document of a trial, lines 244 and 252
DocumentName(trial) ==
    [stem |-> IF Len(hpo_config.direction) = 1 THEN "hyperparameters"
              ELSE "best_hyperparameters",
     values |-> [k \in 1..Len(trial.values) |-> Format4(trial.values[k])]]

\* open(name, "w") and yaml.dump(params, f): a document of that name is
\* replaced
Write(docs, name, trial) ==
    {d \in docs : d.name # name} \cup
    {[name |-> name, params |-> trial.number,
      perturbed |-> hpo_config.perturb_hps]}

\* the number of passes of the loop, lines 242 and 250
SaveCount ==
    IF Len(hpo_config.direction) = 1
    THEN Min(hpo_config.save_n_best_hps, Len(study.trials))
    ELSE Len(trials)

\* lines 236-241 and 248-249
SaveEnter ==
    /\ pc = "idle"
    /\ trials' = IF Len(hpo_config.direction) = 1
                 THEN SortTrials(study.trials) ELSE BestTrials(study.trials)
    /\ i' = 0
    /\ pc' = "save_for"
    /\ UNCHANGED <<hpo_config, objective_vars, perturb_vars, gp_vars, gpc_vars,
                   documents, funcs, sym_dict, raised>>

\* lines 243-247 and 251-255: trial i has a value and is dumped
SaveDocument ==
    /\ pc = "save_for"
    /\ i < SaveCount
    /\ At(trials, i).has_value
    /\ documents' = Write(documents, DocumentName(At(trials, i)), At(trials, i))
    /\ i' = i + 1
    /\ UNCHANGED <<hpo_config, objective_vars, perturb_vars, gp_vars, gpc_vars,
                   trials, funcs, sym_dict, pc, raised>>

\* line 244: trials[i].value is None and cannot be formatted with .4f
SaveNoValue ==
    /\ pc = "save_for"
    /\ i < SaveCount
    /\ ~At(trials, i).has_value
    /\ raised' = "TypeError"
    /\ pc' = "raised"
    /\ UNCHANGED <<hpo_config, objective_vars, perturb_vars, gp_vars, gpc_vars,
                   rest_vars, i>>

\* lines 242, 250 and 257-293: the loop is over
SaveDone ==
    /\ pc = "save_for"
    /\ i = SaveCount
    /\ pc' = "save_done"
    /\ UNCHANGED <<hpo_config, objective_vars, perturb_vars, gp_vars, gpc_vars,
                   rest_vars, i, raised>>

NextSave ==
    \/ SaveEnter
    \/ SaveDocument
    \/ SaveNoValue
    \/ SaveDone

SpecSave == InitSave /\ [][NextSave]_vars

\* trial a has a value and trial b has none or a value that is not better
\* in the configured direction
NotWorse(a, b) ==
    /\ a.has_value
    /\ b.has_value =>
          IF hpo_config.direction[1] = "minimize"
          THEN a.values[1] <= b.values[1] ELSE a.values[1] >= b.values[1]

\* C22: after a single-objective search hyperparameter_optimization writes
\* one document for each retained top trial: the retained trials are the
\* min(save_n_best_hps, number of trials) first of the trials ordered by
\* value in the configured direction with the trials without a value last,
\* each has a document named by its value to 4 decimal places, and N
\* retained trials yield N documents.
C22_OneDocumentPerTopTrial ==
    (Len(hpo_config.direction) = 1 /\ pc = "save_done") =>
        LET N == Min(hpo_config.save_n_best_hps, Len(study.trials))
        IN  /\ \A k \in 1..N : \A l \in (N + 1)..Len(trials) :
                  NotWorse(trials[k], trials[l])
            /\ \A k \in 1..N :
                  \E d \in documents :
                      /\ d.name.stem = "hyperparameters"
                      /\ d.name.values = <<(trials[k].values[1] + 5) \div 10>>
            /\ Cardinality(documents) = N

-----------------------------------------------------------------------------
(* objective, revisited *)

\* the points of the learning curve of run o whose mean return is at least
\* 70% of the final return of the run
AtLeast70(o) ==
    {j \in 1..Len(o.mean_returns) : 10 * o.mean_returns[j] >= 7 * o.ret}

\* C23: for a repetition whose _learn and _run returned, the efficiency
\* recorded is the mean return divided by the environment steps at the
\* first point of the learning curve whose mean return is at least 70% of
\* the final return of that run, and it is 0 when no point reaches that
\* threshold or the agent has no learning_curve.
C23_EfficiencyAtFirst70Percent ==
    /\ Len(efficiencies) = Len(repLog)
    /\ \A k \in DOMAIN repLog :
        repLog[k].how = "run" =>
            LET o == repLog[k].run
            IN  IF o.has_curve /\ AtLeast70(o) # {}
                THEN \E j \in AtLeast70(o) :
                        /\ \A l \in AtLeast70(o) : j <= l
                        /\ efficiencies[k] * o.steps[j] = o.mean_returns[j]
                ELSE efficiencies[k] = 0

\* C23 witness: the three kinds of run have been recorded in one trial: one
\* whose curve reaches the threshold at its second point of three, one
\* whose curve never reaches it, one without a curve
C23_Witness ==
    /\ pc = "summarize"
    /\ \E k \in DOMAIN repLog :
        /\ repLog[k].how = "run"
        /\ repLog[k].run.has_curve
        /\ AtLeast70(repLog[k].run) = {2, 3}
        /\ efficiencies[k] = 3
    /\ \E k \in DOMAIN repLog :
        /\ repLog[k].how = "run"
        /\ repLog[k].run.has_curve
        /\ AtLeast70(repLog[k].run) = {}
        /\ efficiencies[k] = 0
    /\ \E k \in DOMAIN repLog :
        /\ repLog[k].how = "run"
        /\ ~repLog[k].run.has_curve
        /\ efficiencies[k] = 0

-----------------------------------------------------------------------------
(* train, revisited *)

\* C24: in train the snapshot written at an iteration that achieved a new
\* best held-out loss holds the hyperparameters on which that held-out loss
\* was measured, so that the model train reloads at its end is the one that
\* achieved the lowest loss reported.
C24_SnapshotIsMeasuredState ==
    (hist # <<>> /\ \E m \in DOMAIN hist : hist[m].saved) =>
        /\ files[DefaultName] = hist[LastSaved].measured_on
        /\ pc = "gp_idle" => model.params = hist[LastSaved].measured_on

\* C26: after every call of train or init_with_hyperparam of a
\* GaussianProcess that returns, a second call on the same object with
\* another dataset included, the training data the model holds is the
\* dataset passed to that call, the one the kernel cache and the export are
\* built from.
C26_ModelHoldsDataOfTheCall ==
    [][(gp_class = "GaussianProcess" /\ CallReturns) =>
          /\ model'.train_inputs = train_x'
          /\ model'.train_inputs = K_plus_noise'.inputs
          /\ model'.train_inputs = casadi_predict'.inputs]_vars

-----------------------------------------------------------------------------
(* The two entry paths of _perturb_hps *)

\* the sibling configurations dumped on one entry path: for each, the key
\* changed and what was put in tmp_hp[key]
Siblings(from_file) ==
    { [key |-> written[n].key, value |-> written[n].value,
       as_list |-> written[n].as_list] :
        n \in {m \in DOMAIN written : written[m].from_file = from_file} }

\* C27: the two entry paths of _perturb_hps are equivalent: for the same
\* point, the sibling configurations generated from hp in memory are those
\* generated from the file hp_path, for every type of key, a list of float
\* in the float section included.
C27_PathsEquivalent ==
    (pc = "perturbed" /\ hp_path # "") => Siblings(FALSE) = Siblings(TRUE)

-----------------------------------------------------------------------------
(* The lists of a trial *)

\* the repetitions of the trial so far whose _learn returned
LearnCompleted == {k \in DOMAIN repLog : repLog[k].how # "learn"}

\* C28: whenever objective reaches a summarize step, the lists returns,
\* efficiencies and seeds of the trial have the same length, one entry per
\* repetition begun, and that length is at most the number of batches run
\* so far times repetitions; and total_runs has grown by exactly the number
\* of repetitions of the trial whose _learn returned without raising.
C28_ListsAlignedAtSummarize ==
    pc = "summarize" =>
        /\ Len(returns) = Len(efficiencies)
        /\ Len(returns) = Len(seeds)
        /\ Len(returns) = Len(repLog)
        /\ Len(returns) <= batches * hpo_config.repetitions
        /\ total_runs = Cardinality(LearnCompleted)

\* C28 witness: the second batch of a trial of two repetitions is about to
\* be summarized after its first repetition failed in _learn: three entries
\* in each list, two runs counted
C28_Witness ==
    /\ pc = "summarize"
    /\ hpo_config.repetitions = 2
    /\ batches = 2
    /\ Len(seeds) = 3
    /\ Len(returns) = 3
    /\ repLog[3].how = "learn"
    /\ total_runs = 2

-----------------------------------------------------------------------------
(* The direction of the CVaR tails *)

\* C30: both CVaR summaries of a trial, the one over the returns and the
\* one over the efficiencies, take their tail by the first configured
\* direction, direction[0] of the code; in a configuration of two
\* objectives the direction of the second objective has no part in either.
C30_TailsByFirstDirection ==
    [][pc = "summarize" =>
          /\ Gss_rew' = ComputeCvar(returns, hpo_config.alpha,
                                    hpo_config.direction[1])
          /\ Gss_eff' = ComputeCvar(efficiencies, hpo_config.alpha,
                                    hpo_config.direction[1])]_vars

\* C30 witness: a trial of two objectives with opposite directions has been
\* summarized, and both summaries are the ones of the first direction where
\* the second direction would have given other values
C30_Witness ==
    /\ Len(hpo_config.direction) = 2
    /\ pc = "while"
    /\ passLog # <<>>
    /\ Gss_rew = ComputeCvar(returns, hpo_config.alpha, hpo_config.direction[1])
    /\ Gss_rew # ComputeCvar(returns, hpo_config.alpha, hpo_config.direction[2])
    /\ Gss_eff = ComputeCvar(efficiencies, hpo_config.alpha,
                             hpo_config.direction[1])
    /\ Gss_eff # ComputeCvar(efficiencies, hpo_config.alpha,
                             hpo_config.direction[2])

-----------------------------------------------------------------------------
(* SymbolicModel, symbolic_systems.py lines 33-167                          *)
(*                                                                         *)
(* sym_dict is self.__dict__: for every name, whether it is unset, was set *)
(* by the model itself ("model") or was injected from funcs ("funcs").     *)
(* funcs is the mapping given to __init__, as the sequence of its names in *)
(* the order items() yields them; funcs=None is the empty sequence.        *)

\* the largest number of entries of funcs
MaxFuncs == 2

\* lines 57-69: what __init__ sets before it looks at funcs
DynamicsNames == {"x_sym", "u_sym", "x_dot", "y_sym", "dt", "integration_algo"}

\* lines 78-88: the dimensions and the cost
CostNames == {"nx", "nu", "ny", "cost_func", "Q", "R", "Xr", "Ur"}

\* setup_model, lines 98-112
SetupModelNames == {"fc_func", "fd_func", "g_func"}

\* setup_linearization, lines 114-167
SetupLinearizationNames ==
    {"dfdx", "dfdu", "df_func", "dgdx", "dgdu", "dg_func", "x_eval", "u_eval",
     "x_dot_linear", "fc_linear_func", "fd_linear_func", "y_linear",
     "g_linear_func", "l_x", "l_xx", "l_u", "l_uu", "l_xu", "loss"}

\* the names a caller puts in funcs: some the model sets too, some it
\* never sets
FuncNames ==
    {"x_sym", "dt", "nx", "cost_func", "fc_func", "loss", "constraint_func",
     "barrier_func"}

AttributeNames ==
    DynamicsNames \cup CostNames \cup SetupModelNames
        \cup SetupLinearizationNames \cup FuncNames

\* funcs: up to MaxFuncs names, no name twice
FuncsMappings ==
    UNION { {f \in [1..n -> FuncNames] :
                \A a \in 1..n : \A b \in 1..n : f[a] = f[b] => a = b} :
            n \in 0..MaxFuncs }

\* the call SymbolicModel(dynamics, cost, dt, integration_algo, funcs)
InitSymbolic ==
    /\ HpoIdle
    /\ GPIdle
    /\ SaveIdle
    /\ pc = "sym_new"
    /\ funcs \in FuncsMappings
    /\ sym_dict = [n \in AttributeNames |-> "unset"]

\* self.<name> = ... for every name of names
SetByModel(names) ==
    [n \in AttributeNames |-> IF n \in names THEN "model" ELSE sym_dict[n]]

\* lines 57-69: the dynamics, dt and the integration algorithm
SymDynamics ==
    /\ pc = "sym_new"
    /\ sym_dict' = SetByModel(DynamicsNames)
    /\ i' = 0
    /\ pc' = "sym_funcs"
    /\ UNCHANGED <<hpo_config, objective_vars, perturb_vars, gp_vars, gpc_vars,
                   trials, documents, funcs, raised>>

\* lines 73-75: name is not in self.__dict__ and is injected
SymInject ==
    /\ pc = "sym_funcs"
    /\ i < Len(funcs)
    /\ sym_dict[At(funcs, i)] = "unset"
    /\ sym_dict' = [sym_dict EXCEPT ![At(funcs, i)] = "funcs"]
    /\ i' = i + 1
    /\ UNCHANGED <<hpo_config, objective_vars, perturb_vars, gp_vars, gpc_vars,
                   trials, documents, funcs, pc, raised>>

\* line 74: name is in self.__dict__ and the assert fails
SymCollision ==
    /\ pc = "sym_funcs"
    /\ i < Len(funcs)
    /\ sym_dict[At(funcs, i)] # "unset"
    /\ raised' = "AssertionError"
    /\ pc' = "raised"
    /\ UNCHANGED <<hpo_config, objective_vars, perturb_vars, gp_vars, gpc_vars,
                   rest_vars, i>>

\* lines 78-88, the loop over funcs being over
SymCost ==
    /\ pc = "sym_funcs"
    /\ i = Len(funcs)
    /\ sym_dict' = SetByModel(CostNames)
    /\ pc' = "sym_setup_model"
    /\ UNCHANGED <<hpo_config, objective_vars, perturb_vars, gp_vars, gpc_vars,
                   trials, documents, funcs, i, raised>>

\* line 91 and setup_model, lines 98-112
SetupModel ==
    /\ pc = "sym_setup_model"
    /\ sym_dict' = SetByModel(SetupModelNames)
    /\ pc' = "sym_setup_linearization"
    /\ UNCHANGED <<hpo_config, objective_vars, perturb_vars, gp_vars, gpc_vars,
                   trials, documents, funcs, i, raised>>

\* line 94 and setup_linearization, lines 114-167
SetupLinearization ==
    /\ pc = "sym_setup_linearization"
    /\ sym_dict' = SetByModel(SetupLinearizationNames)
    /\ pc' = "sym_done"
    /\ UNCHANGED <<hpo_config, objective_vars, perturb_vars, gp_vars, gpc_vars,
                   trials, documents, funcs, i, raised>>

NextSymbolic ==
    \/ SymDynamics
    \/ SymInject
    \/ SymCollision
    \/ SymCost
    \/ SetupModel
    \/ SetupLinearization

SpecSymbolic == InitSymbolic /\ [][NextSymbolic]_vars

\* C29: after a SymbolicModel has been constructed with a funcs mapping,
\* every injected name refers to the injected function: none was overwritten
\* by an attribute the model sets itself, such a collision being rejected
\* at construction.
C29_InjectedNamesKept ==
    pc = "sym_done" =>
        \A k \in 1..Len(funcs) : sym_dict[funcs[k]] = "funcs"

====
